---- MODULE Spec2Model ----
(***************************************************************************)
(* Lightsprint Claude Code plugin: the two hook handlers (task sync and    *)
(* plan review), the API client with token refresh, the on-demand OAuth    *)
(* flow, the local callback server and the JSON files under ~/.lightsprint *)
(*                                                                         *)
(* One hook process runs per behaviour.  Its awaits are the action         *)
(* boundaries.  Around it run: the clock, another CLI process that         *)
(* disconnects a folder, the browser that talks to the callback server,    *)
(* and the remote service that answers the HTTP calls.                     *)
(*                                                                         *)
(* Time is counted in minutes.  Tokens are integers: 0 is "no token"       *)
(* (null / undefined), g > 0 is the access token of generation g and -g    *)
(* the refresh token of generation g.  Paths are sequences of characters.  *)
(***************************************************************************)
EXTENDS Integers, Sequences, FiniteSets, TLC

VARIABLES
    now,            \* Date.now(), in minutes
    gen,            \* last token generation the token endpoint has issued
    projectsFile,   \* ~/.lightsprint/projects.json
    taskMapFile,    \* ~/.lightsprint/task-map.json
    activeTaskFile, \* ~/.lightsprint/active-task.json
    activePlanFile, \* ~/.lightsprint/active-plan.json
    wr,             \* the file write the hook process is in the middle of
    prog,           \* which script this process runs
    argv,           \* process.argv[2]
    input,          \* what the host put on stdin / in the input file
    pc,             \* position of the hook process
    exitCode,       \* exit code once the process has ended
    stdout,         \* what the process wrote to standard output
    calls,          \* HTTP requests sent by this process, in order
    cfgMem,         \* client.js _config (<<>> while unset)
    api,            \* the apiRequest call in progress (or the last one)
    apiOut,         \* what the last apiRequest returned or threw
    loc,            \* local variables of the handler
    authRev,        \* which revision of lib/auth.js is installed
    srv,            \* the callback servers ("oauth", "plan") of this process
    conns,          \* the connections the browser has to each server
    peers,          \* hook processes updating the same file at the same time
    events          \* the hook events handled so far, oldest first

vars == <<now, gen, projectsFile, taskMapFile, activeTaskFile, activePlanFile,
          wr, prog, argv, input, pc, exitCode, stdout, calls, cfgMem, api,
          apiOut, loc, authRev, srv, conns, peers, events>>

net == <<authRev, srv, conns>>

files == <<projectsFile, taskMapFile, activeTaskFile, activePlanFile>>

----------------------------------------------------------------------------
(* Bounds of the model *)

MaxNow == 1

(* Program constants *)

fiveMinutes == 5

----------------------------------------------------------------------------
(* Paths *)

RootDir == <<"/">>
DirW    == <<"/", "w">>
DirWP   == <<"/", "w", "/", "p">>
DirWPP  == <<"/", "w", "/", "p", "p">>
Dirs    == {RootDir, DirW, DirWP, DirWPP}

\* process.cwd() of the hook process
procCwd == DirWP

RECURSIVE LastSlash(_, _)
LastSlash(p, i) ==
    IF i = 0 THEN 0
    ELSE IF p[i] = "/" THEN i ELSE LastSlash(p, i - 1)

dirnameSelf(p) == p

dirname(p) ==
    LET i == LastSlash(p, Len(p))
    IN  IF i <= 1 THEN RootDir ELSE SubSeq(p, 1, i - 1)

startsWith(s, prefix) ==
    /\ Len(prefix) <= Len(s)
    /\ SubSeq(s, 1, Len(prefix)) = prefix

----------------------------------------------------------------------------
(* A file under ~/.lightsprint is "missing", "ok" (a JSON object, in data), *)
(* "partial" (cut short in the middle of a write), "garbage" (any other     *)
(* text JSON.parse rejects) or "null" (the JSON text null)                  *)

JsonFile(value) == [state |-> "ok", data |-> value]

\* JSON.parse(readFileSync(file)) returns null: reading a property of the
\* result throws a TypeError
parsesToNull(f) == f.state = "null"

\* obj.name; a property the object does not have reads as undefined ("")
prop(obj, name) == IF name \in DOMAIN obj THEN obj[name] ELSE ""

----------------------------------------------------------------------------
(* projects.json *)

NoProjects == [d \in {} |-> 0]

Entry(a, r, e, j, s) ==
    [accessToken |-> a, refreshToken |-> r, expiresAt |-> e,
     projectId |-> j, skipped |-> s]

SkippedEntryWithTokens == Entry(1, -1, 0, "", TRUE)

\* projects[folder] = { skipped: true }
SkippedEntry == Entry(0, 0, 0, "", TRUE)

readProjectsFile(f) == IF f.state = "ok" THEN f.data ELSE NoProjects

RECURSIVE findProjectConfig(_, _)
findProjectConfig(projects, dir) ==
    IF dir \in DOMAIN projects
    THEN <<[accessToken  |-> projects[dir].accessToken,
            refreshToken |-> projects[dir].refreshToken,
            expiresAt    |-> projects[dir].expiresAt,
            projectId    |-> projects[dir].projectId,
            skipped      |-> projects[dir].skipped,
            folder       |-> dir]>>
    ELSE IF dirname(dir) = dir THEN <<>>
    ELSE findProjectConfig(projects, dirname(dir))

getConfig(f) == findProjectConfig(readProjectsFile(f), procCwd)

----------------------------------------------------------------------------
(* File writes.  writeFileSync on the target truncates it and then writes; *)
(* the tmp + rename writers fill a temp file and rename it over the target *)

Idle == [stage |-> "idle", file |-> "none", data |-> <<>>, prev |-> <<>>]

Alive == pc \notin {"exited", "crashed", "killed"}

At(p) == pc = p /\ wr.stage = "idle"

writeProjectsFile(data) ==
    /\ wr' = [stage |-> "open", file |-> "projects.json", data |-> data,
              prev |-> projectsFile]
    /\ projectsFile' = [state |-> "partial", data |-> NoProjects]
    /\ UNCHANGED <<taskMapFile, activeTaskFile, activePlanFile>>

writeTmp(file, data, prev) ==
    /\ wr' = [stage |-> "open", file |-> file, data |-> data, prev |-> prev]
    /\ UNCHANGED files

writeMap(map) == writeTmp("task-map.json", map, taskMapFile)

\* JSON.stringify({ lsTaskId, updatedAt })
activeTaskJson(lsTaskId, t) == [lsTaskId |-> lsTaskId, updatedAt |-> t]

setActiveTask(lsTaskId) ==
    writeTmp("active-task.json", <<activeTaskJson(lsTaskId, now)>>,
             activeTaskFile)

activePlanJsonNoSession(planId, projectId, sessionId, t) ==
    [planId |-> planId, projectId |-> projectId, updatedAt |-> t]

\* JSON.stringify({ planId, projectId, sessionId, updatedAt }): a property
\* whose value is undefined is left out
activePlanJson(planId, projectId, sessionId, t) ==
    IF sessionId = ""
    THEN [planId |-> planId, projectId |-> projectId, updatedAt |-> t]
    ELSE [planId |-> planId, projectId |-> projectId,
          sessionId |-> sessionId, updatedAt |-> t]

setActivePlan(planId, projectId, sessionId) ==
    writeTmp("active-plan.json",
             <<activePlanJson(planId, projectId, sessionId, now)>>,
             activePlanFile)

\* the content reaches the file that was opened
WriteData ==
    /\ Alive
    /\ wr.stage = "open"
    /\ IF wr.file = "projects.json"
       THEN /\ projectsFile' = [state |-> "ok", data |-> wr.data]
            /\ wr' = Idle
       ELSE /\ wr' = [wr EXCEPT !.stage = "written"]
            /\ UNCHANGED projectsFile
    /\ UNCHANGED <<now, peers, events, gen, taskMapFile, activeTaskFile, activePlanFile,
                   net, prog, argv, input, pc, exitCode, stdout, calls, cfgMem,
                   api, apiOut, loc>>

\* renameSync(tmp, target)
RenameTmp ==
    /\ Alive
    /\ wr.stage = "written"
    /\ taskMapFile' =
         IF wr.file = "task-map.json" THEN JsonFile(wr.data) ELSE taskMapFile
    /\ activeTaskFile' =
         IF wr.file = "active-task.json" THEN JsonFile(wr.data)
         ELSE activeTaskFile
    /\ activePlanFile' =
         IF wr.file = "active-plan.json" THEN JsonFile(wr.data)
         ELSE activePlanFile
    /\ wr' = Idle
    /\ UNCHANGED <<now, peers, events, gen, projectsFile, net, prog, argv, input, pc, exitCode,
                   stdout, calls, cfgMem, api, apiOut, loc>>

\* the process is killed in the middle of a write
CrashDuringWrite ==
    /\ Alive
    /\ wr.stage # "idle"
    /\ pc' = "killed"
    /\ UNCHANGED <<now, peers, events, gen, files, wr, net, prog, argv, input, exitCode, stdout,
                   calls, cfgMem, api, apiOut, loc>>

----------------------------------------------------------------------------
(* The surroundings *)

Tick ==
    /\ Alive
    /\ now < MaxNow
    /\ now' = now + 1
    /\ UNCHANGED <<peers, events, gen, files, wr, net, prog, argv, input, pc, exitCode, stdout,
                   calls, cfgMem, api, apiOut, loc>>

\* `lightsprint disconnect` run by the user in directory cwd, in another
\* process, while the hook process is running.  A disconnect that comes
\* before the hook has looked its link up is an initial state without the
\* link
\* the folders cmdDisconnect deletes: if (!cwd.startsWith(folder) && folder
\* !== cwd) continue; toRemove.push(folder)
toRemove(projects, cwd) ==
    {folder \in DOMAIN projects : ~(~startsWith(cwd, folder) /\ folder # cwd)}

cmdDisconnect(cwd) ==
    LET projects == readProjectsFile(projectsFile)
    IN  /\ Alive
        /\ loc.cfg # <<>>
        /\ projectsFile.state = "ok"
        /\ toRemove(projects, cwd) # {}
        /\ projectsFile' =
             [state |-> "ok",
              data  |-> [d \in DOMAIN projects \ toRemove(projects, cwd) |->
                           projects[d]]]
        /\ UNCHANGED <<now, peers, events, gen, taskMapFile, activeTaskFile, activePlanFile,
                       wr, net, prog, argv, input, pc, exitCode, stdout, calls,
                       cfgMem, api, apiOut, loc>>

Disconnect == \E cwd \in Dirs : cmdDisconnect(cwd)

----------------------------------------------------------------------------
(* Ending the process *)

Exit(code) ==
    /\ pc' = "exited"
    /\ exitCode' = code

\* an exception nobody catches: Node prints it and exits with code 1
Uncaught ==
    /\ pc' = "crashed"
    /\ exitCode' = 1

----------------------------------------------------------------------------
(* client.js: the API client with token refresh *)

ExpiresInChoices == {2, 60}

ApiIdle ==
    [phase |-> "idle", req |-> "", target |-> "", body |-> "", ret |-> "",
     callStart |-> 0, t0 |-> 0, needRefresh |-> FALSE, cfg0 |-> <<>>,
     refreshed |-> "na", persisted |-> FALSE, data |-> <<>>]

NoOut == [status |-> "none", err |-> "", null |-> FALSE, id |-> ""]

Throw(e) == [status |-> "throw", err |-> e, null |-> FALSE, id |-> ""]

Ok(isNull, id) == [status |-> "ok", err |-> "", null |-> isNull, id |-> id]

RefreshCall(refreshToken) ==
    [kind |-> "refresh", req |-> "POST /oauth/token", target |-> "",
     body |-> "", token |-> refreshToken]

DataCall(a, accessToken) ==
    [kind |-> "data", req |-> a.req, target |-> a.target, body |-> a.body,
     token |-> accessToken]

\* the id the service puts in a response body, when it puts one
ResponseId(req) ==
    CASE req = "GET /api/project-key/info"     -> "J1"
      [] req = "POST /api/projects/:id/tasks"  -> "L2"
      [] req = "POST /api/projects/:id/plans"  -> "P2"
      [] OTHER                                 -> "X1"

\* config(): the memoized config, else requireConfig()
config == IF cfgMem # <<>> THEN cfgMem ELSE getConfig(projectsFile)

\* apiRequest(path, options), up to its first await on the network
CallApi(req, target, body, ret) ==
    /\ api' = [ApiIdle EXCEPT !.phase = "running", !.req = req,
                              !.target = target, !.body = body, !.ret = ret]
    /\ pc' = "api_start"

RefreshFailureSwallowed == Ok(TRUE, "")

\* apiRequest when refreshTokenIfNeeded returned false
RefreshFailure == Throw("reauth")

refreshedEntryKeepsRefreshToken(entry, data, t) ==
    [entry EXCEPT !.accessToken = data.access_token,
                  !.expiresAt = t + data.expires_in]

\* the ProjectLink entry with the tokens of a refresh response
refreshedEntry(entry, data, t) ==
    [entry EXCEPT !.accessToken = data.access_token,
                  !.refreshToken = data.refresh_token,
                  !.expiresAt = t + data.expires_in]

tokenStillValidNoMargin(cfg, t) == cfg.expiresAt # 0 /\ cfg.expiresAt > t

\* does refreshTokenIfNeeded return before it contacts the token endpoint
tokenStillValid(cfg, t) == cfg.expiresAt # 0 /\ cfg.expiresAt > t + fiveMinutes

ApiStart ==
    /\ At("api_start")
    /\ IF config = <<>>
       THEN \* requireConfig: console.error and process.exit(1)
            /\ Exit(1)
            /\ UNCHANGED <<calls, cfgMem, api, apiOut>>
       ELSE LET cfg == config[1] IN
            /\ cfgMem' = config
            /\ UNCHANGED exitCode
            /\ IF tokenStillValid(cfg, now)
               THEN /\ calls' = Append(calls, DataCall(api, cfg.accessToken))
                    /\ api' = [api EXCEPT !.callStart = Len(calls), !.t0 = now,
                                          !.cfg0 = config]
                    /\ pc' = "api_data_wait"
                    /\ UNCHANGED apiOut
               ELSE IF cfg.refreshToken = 0
               THEN /\ api' = [api EXCEPT !.callStart = Len(calls), !.t0 = now,
                                          !.cfg0 = config,
                                          !.needRefresh = TRUE,
                                          !.refreshed = "fail",
                                          !.phase = "done"]
                    /\ apiOut' = RefreshFailure
                    /\ pc' = api.ret
                    /\ UNCHANGED calls
               ELSE /\ calls' = Append(calls, RefreshCall(cfg.refreshToken))
                    /\ api' = [api EXCEPT !.callStart = Len(calls), !.t0 = now,
                                          !.cfg0 = config,
                                          !.needRefresh = TRUE]
                    /\ pc' = "api_refresh_wait"
                    /\ UNCHANGED apiOut
    /\ UNCHANGED <<now, peers, events, gen, files, wr, net, prog, argv, input, stdout, loc>>

\* the answer of POST /oauth/token
ApiRefreshResponse ==
    /\ At("api_refresh_wait")
    /\ \E outcome \in {"neterr", "non2xx", "badjson", "ok"} :
         IF outcome # "ok"
         THEN /\ api' = [api EXCEPT !.refreshed = "fail", !.phase = "done"]
              /\ apiOut' = RefreshFailure
              /\ pc' = api.ret
              /\ UNCHANGED <<gen, files, wr>>
         ELSE \E ei \in ExpiresInChoices :
              LET data == [access_token |-> gen + 1,
                           refresh_token |-> 0 - (gen + 1),
                           expires_in |-> ei]
                  projects == readProjectsFile(projectsFile)
                  folder == cfgMem[1].folder
              IN  /\ gen' = gen + 1
                  /\ pc' = "api_refresh_mem"
                  /\ UNCHANGED apiOut
                  /\ IF folder \in DOMAIN projects
                     THEN /\ writeProjectsFile(
                               [projects EXCEPT ![folder] =
                                  refreshedEntry(@, data, now)])
                          /\ api' = [api EXCEPT !.data = <<data>>,
                                                !.persisted = TRUE]
                     ELSE /\ api' = [api EXCEPT !.data = <<data>>]
                          /\ UNCHANGED <<files, wr>>
    /\ UNCHANGED <<now, peers, events, net, prog, argv, input, exitCode, stdout, calls, cfgMem,
                   loc>>

\* the in-memory config gets the new tokens, and the data request is sent
ApiRefreshMem ==
    /\ At("api_refresh_mem")
    /\ LET data == api.data[1]
           cfg  == refreshedEntry(cfgMem[1], data, now)
       IN  /\ cfgMem' = <<cfg>>
           /\ api' = [api EXCEPT !.refreshed = "ok"]
           /\ calls' = Append(calls, DataCall(api, cfg.accessToken))
    /\ pc' = "api_data_wait"
    /\ UNCHANGED <<now, peers, events, gen, files, wr, net, prog, argv, input, exitCode, stdout,
                   apiOut, loc>>

\* the answer of the data request
ApiDataResponse ==
    /\ At("api_data_wait")
    /\ \E outcome \in {"neterr", "non2xx", "204", "json", "json_noid",
                       "badjson"} :
         apiOut' = CASE outcome = "neterr"    -> Throw("network")
                     [] outcome = "non2xx"    -> Throw("http")
                     [] outcome = "badjson"   -> Throw("parse")
                     [] outcome = "204"       -> Ok(TRUE, "")
                     [] outcome = "json_noid" -> Ok(FALSE, "")
                     [] OTHER                 -> Ok(FALSE, ResponseId(api.req))
    /\ api' = [api EXCEPT !.phase = "done"]
    /\ pc' = api.ret
    /\ UNCHANGED <<now, peers, events, gen, files, wr, net, prog, argv, input, exitCode, stdout,
                   calls, cfgMem, loc>>

\* getProjectId(): from the config, else from GET /api/project-key/info
GetProjectId(ret) ==
    /\ pc' = "gpi_start"
    /\ loc' = [loc EXCEPT !.gpiRet = ret]

GpiStart ==
    /\ At("gpi_start")
    /\ IF config = <<>>
       THEN /\ Exit(1)
            /\ UNCHANGED <<cfgMem, api, loc>>
       ELSE /\ cfgMem' = config
            /\ UNCHANGED exitCode
            /\ IF config[1].projectId # ""
               THEN /\ loc' = [loc EXCEPT !.projectId = config[1].projectId]
                    /\ pc' = loc.gpiRet
                    /\ UNCHANGED api
               ELSE /\ CallApi("GET /api/project-key/info", "", "",
                               "gpi_info_ret")
                    /\ UNCHANGED loc
    /\ UNCHANGED <<now, peers, events, gen, files, wr, net, prog, argv, input, stdout, calls,
                   apiOut>>

GpiInfoRet ==
    /\ At("gpi_info_ret")
    /\ IF apiOut.status = "throw" \/ apiOut.null \/ apiOut.id = ""
       THEN \* the error of apiRequest, or the TypeError of info.project.id
            /\ pc' = "thrown"
            /\ UNCHANGED loc
       ELSE /\ loc' = [loc EXCEPT !.projectId = apiOut.id]
            /\ pc' = loc.gpiRet
    /\ UNCHANGED <<now, peers, events, gen, files, wr, net, prog, argv, input, exitCode, stdout,
                   calls, cfgMem, api, apiOut>>

----------------------------------------------------------------------------
(* waitForCallback: the one-shot local HTTP server.  A connection is        *)
(* "closed", "idle" (open, no request outstanding) or "pending" (open,      *)
(* with a request the handler has not answered)                             *)

Servers == {"oauth", "plan"}
ConnIds == {"c1", "c2"}

NoServer ==
    [state |-> "none", timer |-> "none", settled |-> "none", result |-> <<>>,
     responded |-> FALSE, query |-> <<>>, replayed |-> FALSE,
     opened |-> FALSE]
NoConns == [c \in ConnIds |-> "closed"]

\* new Promise(...): createServer, server.listen(port), setTimeout
listen(s) ==
    [NoServer EXCEPT !.state = "binding", !.timer = "armed",
                     !.settled = "pending", !.opened = s.opened]

waitForCallback(k) ==
    /\ srv' = [srv EXCEPT ![k] = listen(@)]
    /\ conns' = [conns EXCEPT ![k] = NoConns]

\* openBrowser(url): the URL that names the callback port is handed to the
\* browser (or printed for the user to open)
openBrowser(s) == [s EXCEPT !.opened = TRUE]

\* for (const socket of sockets) socket.destroy()
destroySockets(cs) == [c \in ConnIds |-> "closed"]

\* server.close(): stops listening; whether it also closes the idle
\* connections depends on the Node version
serverClose(cs, closesIdle) ==
    [c \in ConnIds |-> IF closesIdle /\ cs[c] = "idle" THEN "closed" ELSE cs[c]]

\* closeServer() of review-plan.js and of the later lib/auth.js
closeServer(cs, closesIdle) == serverClose(destroySockets(cs), closesIdle)

usesCloseServer(k) == k = "plan" \/ authRev = "part_008"

\* the connection of a request once the response has been written; with
\* Connection: close the server ends it, else it is kept alive
afterResponse(k, cs, c) ==
    IF usesCloseServer(k) THEN [cs EXCEPT ![c] = "closed"]
    ELSE [cs EXCEPT ![c] = "idle"]

\* what the handler does to the connections on /callback
onCallbackClose(k, cs, closesIdle) ==
    IF usesCloseServer(k) THEN closeServer(cs, closesIdle)
    ELSE serverClose(cs, closesIdle)

\* what the timer does to the connections
onTimeoutClose(k, cs, closesIdle) ==
    IF k = "plan" THEN closeServer(cs, closesIdle)
    ELSE serverClose(cs, closesIdle)

resolveAgain(s, value) ==
    [s EXCEPT !.settled = "resolved", !.result = <<value>>]

\* resolve(value) and reject(error) of a promise settle it only once
resolve(s, value) ==
    IF s.settled = "pending"
    THEN [s EXCEPT !.settled = "resolved", !.result = <<value>>]
    ELSE s

rejectForgotten(s) == s

reject(s) ==
    IF s.settled = "pending" THEN [s EXCEPT !.settled = "rejected"] ELSE s

\* url.searchParams.get(name) || fallback
orDefault(value, fallback) == IF value = "" THEN fallback ELSE value

\* A query string is the sequence of its name=value pairs; a value is the
\* sequence of its pieces as they are on the wire: literal text, "+", or a
\* percent escape
Param(name, raw) == <<name, raw>>

decodeTokenLiteral(t) == t

\* application/x-www-form-urlencoded decoding of one piece
decodeToken(t) ==
    CASE t = "+"   -> " "
      [] t = "%20" -> " "
      [] t = "%21" -> "!"
      [] OTHER     -> t

RECURSIVE urlDecode(_)
urlDecode(raw) ==
    IF raw = <<>> THEN "" ELSE decodeToken(Head(raw)) \o urlDecode(Tail(raw))

\* url.searchParams.get(name): <<>> is null, else the decoded value of the
\* first pair with that name
searchParamsGet(params, name) ==
    LET idx == {i \in 1..Len(params) : params[i][1] = name}
    IN  IF idx = {} THEN <<>>
        ELSE <<urlDecode(params[CHOOSE i \in idx : \A j \in idx : i <= j][2])>>

\* value || fallback, for a value that may be null
orElse(value, fallback) ==
    IF value = <<>> THEN fallback ELSE orDefault(value[1], fallback)

DecisionParams ==
    {<<>>}
    \cup {<<Param("decision", raw)>> :
            raw \in {<<>>, <<"allow">>, <<"allowed">>, <<"deny">>,
                     <<"denied">>, <<"reject">>, <<"maybe">>}}

FeedbackParams ==
    {<<>>}
    \cup {<<Param("feedback", raw)>> :
            raw \in {<<>>, <<"not", "+", "ready">>,
                     <<"not", "%20", "ready", "%21">>}}

PlanQueries == {d \o f : d \in DecisionParams, f \in FeedbackParams}

OAuthQueries ==
    {[skipped |-> FALSE, access_token |-> 1, refresh_token |-> -1,
      expires_in |-> 60, project_id |-> "J1"],
     [skipped |-> FALSE, access_token |-> 1, refresh_token |-> 0,
      expires_in |-> 2, project_id |-> "J1"],
     [skipped |-> FALSE, access_token |-> 0, refresh_token |-> 0,
      expires_in |-> 0, project_id |-> ""],
     [skipped |-> TRUE, access_token |-> 0, refresh_token |-> 0,
      expires_in |-> 0, project_id |-> ""]}

\* the value the handler resolves the promise with
callbackResult(k, q) ==
    IF k = "plan"
    THEN [decision |-> orElse(searchParamsGet(q, "decision"), "allow"),
          feedback |-> orElse(searchParamsGet(q, "feedback"), "")]
    ELSE IF authRev = "part_008" /\ q.skipped
    THEN [skipped |-> TRUE, accessToken |-> 0, refreshToken |-> 0,
          expiresIn |-> 0, projectId |-> ""]
    ELSE [skipped |-> FALSE, accessToken |-> q.access_token,
          refreshToken |-> q.refresh_token, expiresIn |-> q.expires_in,
          projectId |-> q.project_id]

Queries(k) == IF k = "plan" THEN PlanQueries ELSE OAuthQueries

\* main is awaiting the promise of server k.  Once main has taken the
\* result nothing that server does reaches the process any more, and the
\* model stops following it
Awaited(k) == pc = (IF k = "oauth" THEN "rp_oauth_wait" ELSE "rp_wait")

\* the port is bound and the server listens
BindOk ==
    \E k \in Servers :
        /\ Alive
        /\ Awaited(k)
        /\ srv[k].state = "binding"
        /\ srv' = [srv EXCEPT ![k].state = "listening"]
        /\ UNCHANGED <<now, peers, events, gen, files, wr, prog, argv, input, pc, exitCode,
                       stdout, calls, cfgMem, api, apiOut, loc, authRev,
                       conns>>

\* the port found earlier has been taken in the meantime: the server emits
\* 'error' (EADDRINUSE), which has no listener
BindError ==
    \E k \in Servers :
        /\ Alive
        /\ Awaited(k)
        /\ srv[k].state = "binding"
        /\ Uncaught
        /\ UNCHANGED <<now, peers, events, gen, files, wr, prog, argv, input, stdout, calls,
                       cfgMem, api, apiOut, loc, net>>

\* the browser opens a connection
Connect ==
    \E k \in Servers, c \in ConnIds :
        /\ Alive
        /\ Awaited(k)
        /\ srv[k].state = "listening"
        /\ conns[k][c] = "closed"
        /\ conns' = [conns EXCEPT ![k][c] = "idle"]
        /\ UNCHANGED <<now, peers, events, gen, files, wr, prog, argv, input, pc, exitCode,
                       stdout, calls, cfgMem, api, apiOut, loc, authRev, srv>>

\* a connection ends: the browser closes it, or the server's keep-alive
\* timeout does
ConnEnd ==
    \E k \in Servers, c \in ConnIds :
        /\ Alive
        /\ Awaited(k)
        /\ conns[k][c] # "closed"
        /\ conns' = [conns EXCEPT ![k][c] = "closed"]
        /\ UNCHANGED <<now, peers, events, gen, files, wr, prog, argv, input, pc, exitCode,
                       stdout, calls, cfgMem, api, apiOut, loc, authRev, srv>>

\* new URL(req.url, 'http://localhost'), the first statement of the request
\* handler: a request target that is no URL relative to the base (// has an
\* empty host) makes the constructor throw
RequestTargets == {"/callback", "/favicon.ico", "//"}

newURL(target) ==
    IF target = "//"
    THEN [ok |-> FALSE, pathname |-> ""]
    ELSE [ok |-> TRUE, pathname |-> target]

\* a request for another path than /callback: the handler does not answer
RequestOther ==
    \E k \in Servers, c \in ConnIds, target \in RequestTargets :
        /\ Alive
        /\ Awaited(k)
        /\ conns[k][c] = "idle"
        /\ newURL(target).ok
        /\ newURL(target).pathname # "/callback"
        /\ conns' = [conns EXCEPT ![k][c] = "pending"]
        /\ UNCHANGED <<now, peers, events, gen, files, wr, prog, argv, input, pc, exitCode,
                       stdout, calls, cfgMem, api, apiOut, loc, authRev, srv>>

\* the exception leaves the 'request' listener: nothing catches it
RequestInvalid ==
    \E k \in Servers, c \in ConnIds, target \in RequestTargets :
        /\ Alive
        /\ Awaited(k)
        /\ conns[k][c] = "idle"
        /\ ~newURL(target).ok
        /\ Uncaught
        /\ UNCHANGED <<now, peers, events, gen, files, wr, prog, argv, input, stdout, calls,
                       cfgMem, api, apiOut, loc, net>>

\* the request handler on /callback: it closes the server while its own
\* request is still being answered
RequestCallback ==
    \E k \in Servers, c \in ConnIds, closesIdle \in BOOLEAN :
    \E q \in Queries(k) :
        /\ Alive
        /\ Awaited(k)
        /\ conns[k][c] = "idle"
        /\ conns' = [conns EXCEPT
                        ![k] = afterResponse(
                                  k,
                                  onCallbackClose(
                                     k, [conns[k] EXCEPT ![c] = "pending"],
                                     closesIdle),
                                  c)]
        /\ srv' = [srv EXCEPT
                      ![k] = [resolve(srv[k], callbackResult(k, q))
                                 EXCEPT !.state = "closed",
                                        !.responded = TRUE,
                                        !.query =
                                           IF srv[k].settled = "pending"
                                           THEN <<q>> ELSE @,
                                        !.replayed =
                                           @ \/ srv[k].settled # "pending"]]
        /\ UNCHANGED <<now, peers, events, gen, files, wr, prog, argv, input, pc, exitCode,
                       stdout, calls, cfgMem, api, apiOut, loc, authRev>>

\* the setTimeout callback
Timeout ==
    \E k \in Servers, closesIdle \in BOOLEAN :
        /\ Alive
        /\ Awaited(k)
        /\ srv[k].timer = "armed"
        /\ srv[k].state # "binding"
        /\ conns' = [conns EXCEPT
                        ![k] = onTimeoutClose(k, conns[k], closesIdle)]
        /\ srv' = [srv EXCEPT
                      ![k] = [reject(srv[k]) EXCEPT !.state = "closed",
                                                    !.timer = "fired"]]
        /\ UNCHANGED <<now, peers, events, gen, files, wr, prog, argv, input, pc, exitCode,
                       stdout, calls, cfgMem, api, apiOut, loc, authRev>>

\* server.on('close', () => clearTimeout(timer)): 'close' is emitted once the
\* server has stopped listening and its last connection has ended
CloseEvent ==
    \E k \in Servers :
        /\ Alive
        /\ Awaited(k)
        /\ srv[k].state = "closed"
        /\ \A c \in ConnIds : conns[k][c] = "closed"
        /\ srv[k].timer = "armed"
        /\ srv' = [srv EXCEPT ![k].timer = "cleared"]
        /\ UNCHANGED <<now, peers, events, gen, files, wr, prog, argv, input, pc, exitCode,
                       stdout, calls, cfgMem, api, apiOut, loc, authRev,
                       conns>>

----------------------------------------------------------------------------
(* review-plan.js: where the plan text comes from.  A text that may be     *)
(* absent is <<>> (null / undefined) or <<s>>; "" is "no plan" (null)      *)

RECURSIVE concat(_)
concat(pieces) ==
    IF pieces = <<>> THEN "" ELSE Head(pieces) \o concat(Tail(pieces))

\* one content block of a transcript entry: block.type, block.name,
\* block.input.file_path (pathOk: it is a string or absent) and
\* block.input.content
Block(type, name, pathOk, file_path, content) ==
    [type |-> type, name |-> name, pathOk |-> pathOk, file_path |-> file_path,
     content |-> content]

WriteA     == Block("tool_use", "Write", TRUE, "/w/p/.claude/plan.md", "A")
WriteB     == Block("tool_use", "Write", TRUE, "/w/p/docs/PLAN-v2.md", "B")
WriteOther == Block("tool_use", "Write", TRUE, "/w/plan/notes.md", "X")
WriteEmpty == Block("tool_use", "Write", TRUE, "/w/p/plan.md", "")
BadBlock   == Block("tool_use", "Write", FALSE, "", "X")

\* filePath.match(/plan[^/]*\.md$/i) || filePath.includes('.claude/plan'),
\* on the paths of this model
matchesPlanFile(filePath) ==
    filePath \in {"/w/p/.claude/plan.md", "/w/p/docs/PLAN-v2.md", "/w/p/plan.md"}

\* one line of the transcript: does JSON.parse accept it, entry.message.role
\* ("" without a message), is message.content an array, and its blocks
Line(parses, role, isArray, blocks) ==
    [parses |-> parses, role |-> role, isArray |-> isArray, blocks |-> blocks]

Malformed == Line(FALSE, "", FALSE, <<>>)
NoMessage == Line(TRUE, "", FALSE, <<>>)
NotArray  == Line(TRUE, "assistant", FALSE, <<>>)
UserLine  == Line(TRUE, "user", TRUE, <<WriteB>>)
EmptyLine == Line(TRUE, "assistant", TRUE, <<WriteEmpty>>)
BadLine   == Line(TRUE, "assistant", TRUE, <<BadBlock, WriteA>>)

NoTranscript == [state |-> "missing", lines |-> <<>>]
Transcript(lines) == [state |-> "ok", lines |-> lines]

\* the for loop over the blocks of one entry, from block j on: the content
\* of the first matching Write, at which the loop breaks
RECURSIVE scanBlocks(_, _)
scanBlocks(blocks, j) ==
    IF j > Len(blocks) THEN [thrown |-> FALSE, content |-> ""]
    ELSE LET block == blocks[j] IN
         IF block.type # "tool_use" \/ block.name # "Write"
         THEN scanBlocks(blocks, j + 1)
         ELSE IF ~block.pathOk
         THEN \* filePath.match is not a function
              [thrown |-> TRUE, content |-> ""]
         ELSE IF matchesPlanFile(block.file_path)
         THEN [thrown |-> FALSE, content |-> block.content]
         ELSE scanBlocks(blocks, j + 1)

\* the body of the try of one line
scanLine(line) ==
    IF ~line.parses THEN [thrown |-> TRUE, content |-> ""]
    ELSE IF line.role # "assistant" \/ ~line.isArray
    THEN [thrown |-> FALSE, content |-> ""]
    ELSE scanBlocks(line.blocks, 1)

abortScan(rest) == ""

\* catch { } of one line: the loop goes on with the line before
skipLine(rest) == rest

\* the for loop over the lines, from line i down to the first
RECURSIVE scanLines(_, _)
scanLines(lines, i) ==
    IF i = 0 THEN ""
    ELSE LET r == scanLine(lines[i]) IN
         IF r.thrown THEN skipLine(scanLines(lines, i - 1))
         ELSE IF r.content # "" THEN r.content
         ELSE scanLines(lines, i - 1)

extractPlanFromTranscript(transcript) ==
    IF transcript.state # "ok" THEN ""
    ELSE scanLines(transcript.lines, Len(transcript.lines))

\* a candidate plan file; its content is a sequence of pieces
MissingFile    == [state |-> "missing", raw |-> <<>>]
UnreadableFile == [state |-> "unreadable", raw |-> <<>>]
File(raw)      == [state |-> "ok", raw |-> raw]

isWhitespace(piece) == piece \in {" ", "\n", "\t"}

RECURSIVE trimStart(_)
trimStart(raw) ==
    IF raw # <<>> /\ isWhitespace(Head(raw)) THEN trimStart(Tail(raw)) ELSE raw

RECURSIVE trimEnd(_)
trimEnd(raw) ==
    IF raw # <<>> /\ isWhitespace(raw[Len(raw)])
    THEN trimEnd(SubSeq(raw, 1, Len(raw) - 1))
    ELSE raw

trimKeepsAll(raw) == concat(raw)

\* readFileSync(path, 'utf-8').trim()
trim(raw) == concat(trimEnd(trimStart(raw)))

\* the for loop over the candidates, from candidate i on: the plan and the
\* candidates that were probed
RECURSIVE readCandidates(_, _, _)
readCandidates(candidates, i, probed) ==
    IF i > Len(candidates) THEN [plan |-> "", probed |-> probed]
    ELSE IF candidates[i].state = "ok" /\ trim(candidates[i].raw) # ""
    THEN [plan |-> trim(candidates[i].raw), probed |-> Append(probed, i)]
    ELSE readCandidates(candidates, i + 1, Append(probed, i))

\* candidates: <<cwd/.claude/plan.md, cwd/plan.md>>
readPlanFromFile(candidates) == readCandidates(candidates, 1, <<>>)

NoFiles == <<MissingFile, MissingFile>>

----------------------------------------------------------------------------
(* sync-task.js: the PostToolUse hook for TaskCreate / TaskUpdate / Task *)

LocInit ==
    [gpiRet |-> "", projectId |-> "", lsTaskId |-> "", planId |-> "",
     cfg |-> <<>>, plan |-> "", activePlanId |-> "", putFailed |-> FALSE,
     consulted |-> <<>>, scan |-> ""]

CC_TO_LS_InReview == [pending |-> "todo", in_progress |-> "in_progress",
                      completed |-> "in_review"]

CC_TO_LS == [pending |-> "todo", in_progress |-> "in_progress",
             completed |-> "done"]

ccToLsStatus(ccStatus) ==
    IF ccStatus \in DOMAIN CC_TO_LS THEN CC_TO_LS[ccStatus] ELSE ""

noProjectLinkIgnored(cfg) == FALSE

\* if (!cfg): the config guard of main
noProjectLink(cfg) == cfg = <<>>

NoMap == [k \in {} |-> ""]

\* a file that is not there; empty is the value its readers fall back to
NoFile(empty) == [state |-> "missing", data |-> empty]

\* what is not JSON reads as {}
readMap == IF taskMapFile.state = "ok" THEN taskMapFile.data ELSE NoMap

getMapping(ccTaskId) ==
    IF ccTaskId \in DOMAIN readMap THEN readMap[ccTaskId] ELSE ""

setMapping(ccTaskId, lsTaskId) ==
    writeMap([k \in DOMAIN readMap \cup {ccTaskId} |->
                 IF k = ccTaskId THEN lsTaskId ELSE readMap[k]])

\* data.lsTaskId, or undefined when the file is missing or the try threw
getActiveTask ==
    IF activeTaskFile.state = "ok"
    THEN prop(activeTaskFile.data[1], "lsTaskId")
    ELSE ""

clearActiveTaskIgnored == activeTaskFile

\* clearActiveTask(): unlinkSync; what is left of active-task.json
clearActiveTask == NoFile(<<>>)

SystemMessage == [kind |-> "systemMessage", behavior |-> "", message |-> ""]

\* main(), from the start to the dispatch on process.argv[2]
StMain ==
    /\ At("st_start")
    /\ IF input.kind # "object" /\ input.kind # "null"
       THEN \* JSON.parse threw: logged, process.exit(0)
            /\ Exit(0)
            /\ UNCHANGED loc
       ELSE /\ loc' = [loc EXCEPT !.cfg = getConfig(projectsFile)]
            /\ IF noProjectLink(getConfig(projectsFile))
               THEN Exit(0)
               ELSE IF input.kind = "null"
               THEN \* const { tool_input, tool_response } = null, outside
                    \* the try: the promise of main() rejects, unhandled
                    Uncaught
               ELSE /\ pc' = "st_handler"
                    /\ UNCHANGED exitCode
    /\ UNCHANGED <<now, peers, events, gen, files, wr, net, prog, argv, input, stdout, calls,
                   cfgMem, api, apiOut>>

StCreate ==
    /\ At("st_handler")
    /\ argv = "create"
    /\ IF input.respId = ""
       THEN /\ Exit(0)
            /\ UNCHANGED <<files, wr, loc>>
       ELSE IF input.claimId # ""
       THEN /\ setMapping(input.respId, input.claimId)
            /\ pc' = "st_done"
            /\ UNCHANGED <<exitCode, loc>>
       ELSE /\ GetProjectId("st_create_post")
            /\ UNCHANGED <<exitCode, files, wr>>
    /\ UNCHANGED <<now, peers, events, gen, net, prog, argv, input, stdout, calls, cfgMem, api,
                   apiOut>>

StCreatePost ==
    /\ At("st_create_post")
    /\ CallApi("POST /api/projects/:id/tasks", loc.projectId, "todo",
               "st_create_ret")
    /\ UNCHANGED <<now, peers, events, gen, files, wr, net, prog, argv, input, exitCode, stdout,
                   calls, cfgMem, apiOut, loc>>

StCreateRet ==
    /\ At("st_create_ret")
    /\ IF apiOut.status = "throw"
       THEN /\ pc' = "thrown"
            /\ UNCHANGED <<exitCode, files, wr>>
       ELSE IF apiOut.id = ""
       THEN /\ Exit(0)
            /\ UNCHANGED <<files, wr>>
       ELSE /\ setMapping(input.respId, apiOut.id)
            /\ pc' = "st_done"
            /\ UNCHANGED exitCode
    /\ UNCHANGED <<now, peers, events, gen, net, prog, argv, input, stdout, calls, cfgMem, api,
                   apiOut, loc>>

\* handleUpdate up to the tracking of the active task
StUpdate ==
    /\ At("st_handler")
    /\ argv = "update"
    /\ IF input.taskId = "" \/ getMapping(input.taskId) = ""
       THEN /\ Exit(0)
            /\ UNCHANGED <<files, wr, loc>>
       ELSE /\ loc' = [loc EXCEPT !.lsTaskId = getMapping(input.taskId)]
            /\ pc' = "st_update2"
            /\ UNCHANGED exitCode
            /\ IF input.status = "in_progress"
               THEN setActiveTask(getMapping(input.taskId))
               ELSE IF input.status \in {"completed", "deleted"}
               THEN \* clearActiveTask: unlinkSync
                    /\ activeTaskFile' = clearActiveTask
                    /\ UNCHANGED <<projectsFile, taskMapFile, activePlanFile,
                                   wr>>
               ELSE UNCHANGED <<files, wr>>
    /\ UNCHANGED <<now, peers, events, gen, net, prog, argv, input, stdout, calls, cfgMem, api,
                   apiOut>>

\* handleUpdate from the deletion test on
StUpdate2 ==
    /\ At("st_update2")
    /\ IF input.status = "deleted"
       THEN /\ CallApi("DELETE /api/tasks/:id", loc.lsTaskId, "",
                       "st_api_done")
            /\ UNCHANGED exitCode
       ELSE IF ccToLsStatus(input.status) = "" /\ ~input.other
       THEN \* Object.keys(patch).length === 0
            /\ Exit(0)
            /\ UNCHANGED api
       ELSE /\ CallApi("PATCH /api/tasks/:id", loc.lsTaskId,
                       ccToLsStatus(input.status), "st_api_done")
            /\ UNCHANGED exitCode
    /\ UNCHANGED <<now, peers, events, gen, files, wr, net, prog, argv, input, stdout, calls,
                   cfgMem, apiOut, loc>>

StSubagent ==
    /\ At("st_handler")
    /\ argv = "subagent"
    /\ IF getActiveTask = ""
       THEN /\ Exit(0)
            /\ UNCHANGED api
       ELSE /\ CallApi("POST /api/tasks/:id/comments", getActiveTask, "",
                       "st_api_done")
            /\ UNCHANGED exitCode
    /\ UNCHANGED <<now, peers, events, gen, files, wr, net, prog, argv, input, stdout, calls,
                   cfgMem, apiOut, loc>>

StList ==
    /\ At("st_handler")
    /\ argv = "list"
    /\ GetProjectId("st_list_get")
    /\ UNCHANGED <<now, peers, events, gen, files, wr, net, prog, argv, input, exitCode, stdout,
                   calls, cfgMem, api, apiOut>>

StListGet ==
    /\ At("st_list_get")
    /\ CallApi("GET /api/projects/:id/tasks", loc.projectId, "",
               "st_output_ret")
    /\ UNCHANGED <<now, peers, events, gen, files, wr, net, prog, argv, input, exitCode, stdout,
                   calls, cfgMem, apiOut, loc>>

StGet ==
    /\ At("st_handler")
    /\ argv = "get"
    /\ IF input.taskId = "" \/ getMapping(input.taskId) = ""
       THEN /\ Exit(0)
            /\ UNCHANGED api
       ELSE /\ CallApi("GET /api/tasks/:id", getMapping(input.taskId), "",
                       "st_output_ret")
            /\ UNCHANGED exitCode
    /\ UNCHANGED <<now, peers, events, gen, files, wr, net, prog, argv, input, stdout, calls,
                   cfgMem, apiOut, loc>>

\* handleList / handleGet after the response: print the system message
StOutputRet ==
    /\ At("st_output_ret")
    /\ IF apiOut.status = "throw" \/ apiOut.null
       THEN \* the error of apiRequest, or the TypeError of data.tasks
            /\ pc' = "thrown"
            /\ UNCHANGED <<exitCode, stdout>>
       ELSE IF argv = "get" /\ apiOut.id = ""
       THEN /\ Exit(0)
            /\ UNCHANGED stdout
       ELSE /\ stdout' = Append(stdout, SystemMessage)
            /\ Exit(0)
    /\ UNCHANGED <<now, peers, events, gen, files, wr, net, prog, argv, input, calls, cfgMem, api,
                   apiOut, loc>>

\* an argv[2] that no branch handles
StNoAction ==
    /\ At("st_handler")
    /\ argv \notin {"create", "update", "subagent", "list", "get"}
    /\ Exit(0)
    /\ UNCHANGED <<now, peers, events, gen, files, wr, net, prog, argv, input, stdout, calls,
                   cfgMem, api, apiOut, loc>>

\* the handler returned, or main caught what it threw: process.exit(0)
StExit ==
    /\ prog = "sync-task"
    /\ \/ At("st_done")
       \/ At("st_api_done")
       \/ At("thrown")
    /\ Exit(0)
    /\ UNCHANGED <<now, peers, events, gen, files, wr, net, prog, argv, input, stdout, calls,
                   cfgMem, api, apiOut, loc>>

----------------------------------------------------------------------------
(* The task-sync hook as a system *)

Tokens(a, r, e, j) == Entry(a, r, e, j, FALSE)

InitEntries ==
    {Tokens(1, r, e, "J1") :
        r \in {0, -1}, e \in {0, -1, fiveMinutes, fiveMinutes + 1}}
    \cup {Tokens(1, -1, fiveMinutes + 1, ""), SkippedEntry}

InitProjects ==
    {NoProjects}
    \cup {[d \in {dir} |-> e] : dir \in {DirWP, DirW}, e \in InitEntries}
    \cup {[d \in {DirWPP} |-> Tokens(1, -1, fiveMinutes + 1, "J1")]}

SyncInput(kind, respId, claimId, taskId, status, other) ==
    [kind |-> kind, respId |-> respId, claimId |-> claimId,
     taskId |-> taskId, status |-> status, other |-> other,
     plan |-> <<>>, transcript |-> NoTranscript, files |-> NoFiles,
     sessionId |-> ""]

SyncRuns ==
    {<<a, SyncInput(k, "", "", "", "", FALSE)>> :
        a \in {"create"}, k \in {"unparsable", "null"}}
    \cup {<<"create", SyncInput("object", r, c, "", "", FALSE)>> :
            r \in {"", "c1"}, c \in {"", "L1"}}
    \cup {<<"update", SyncInput("object", "", "", t, s, o)>> :
            t \in {"", "c1"},
            s \in {"", "pending", "in_progress", "completed", "deleted"},
            o \in BOOLEAN}
    \cup {<<a, SyncInput("object", "", "", "c1", "", FALSE)>> :
            a \in {"subagent", "list", "get", "noop"}}

\* a process that has just started
InitProcess ==
    /\ now = 0
    /\ events = <<>>
    /\ gen = 1
    /\ wr = Idle
    /\ exitCode = -1
    /\ stdout = <<>>
    /\ calls = <<>>
    /\ cfgMem = <<>>
    /\ api = ApiIdle
    /\ apiOut = NoOut
    /\ loc = LocInit
    /\ authRev = "auth.js"
    /\ srv = [k \in Servers |-> NoServer]
    /\ conns = [k \in Servers |-> NoConns]

InitCommon ==
    /\ now = 0
    /\ peers = <<>>
    /\ events = <<>>
    /\ gen = 1
    /\ projectsFile \in {[state |-> "ok", data |-> p] : p \in InitProjects}
    /\ wr = Idle
    /\ exitCode = -1
    /\ stdout = <<>>
    /\ calls = <<>>
    /\ cfgMem = <<>>
    /\ api = ApiIdle
    /\ apiOut = NoOut
    /\ loc = LocInit

InitSync ==
    /\ authRev = "auth.js"
    /\ srv = [k \in Servers |-> NoServer]
    /\ conns = [k \in Servers |-> NoConns]
    /\ InitCommon
    /\ prog = "sync-task"
    /\ pc = "st_start"
    /\ \E run \in SyncRuns : argv = run[1] /\ input = run[2]
    /\ taskMapFile \in {NoFile(NoMap), JsonFile([k \in {"c1"} |-> "L1"])}
    /\ activeTaskFile \in {NoFile(<<>>), JsonFile(<<activeTaskJson("L1", 0)>>)}
    /\ activePlanFile = NoFile(<<>>)

NextSync ==
    \/ StMain
    \/ StCreate
    \/ StCreatePost
    \/ StCreateRet
    \/ StUpdate
    \/ StUpdate2
    \/ StSubagent
    \/ StList
    \/ StListGet
    \/ StGet
    \/ StOutputRet
    \/ StNoAction
    \/ StExit
    \/ GpiStart
    \/ GpiInfoRet
    \/ ApiStart
    \/ ApiRefreshResponse
    \/ ApiRefreshMem
    \/ ApiDataResponse
    \/ WriteData
    \/ RenameTmp
    \/ CrashDuringWrite
    \/ Tick
    \/ Disconnect

SpecSync == InitSync /\ [][NextSync]_vars

----------------------------------------------------------------------------
(* review-plan.js: the PermissionRequest hook for ExitPlanMode *)

Decision(behavior, message) ==
    [kind |-> "decision", behavior |-> behavior, message |-> message]

Text(what) == [kind |-> what, behavior |-> "", message |-> ""]

outputAllow == stdout' = Append(stdout, Decision("allow", ""))

outputDeny(feedback) ==
    stdout' = Append(stdout,
                     Decision("deny",
                              orDefault(feedback, "Plan rejected by reviewer.")))

\* client.js setConfig(cfg): the config the client uses from now on
setConfig(cfg) == cfgMem' = cfg

clearActivePlanKept == activePlanFile

\* clearActivePlan(): unlinkSync; what is left of active-plan.json
clearActivePlan == NoFile(<<>>)

\* { planId, projectId, sessionId } of the file, or undefined (<<>>) when the
\* file is missing, the try threw, or an id is missing
getActivePlan ==
    IF activePlanFile.state # "ok" THEN <<>>
    ELSE LET data == activePlanFile.data[1] IN
         IF prop(data, "planId") # "" /\ prop(data, "projectId") # ""
         THEN <<[planId |-> data.planId, projectId |-> data.projectId,
                 sessionId |-> prop(data, "sessionId")]>>
         ELSE <<>>

\* tool_input.plan, else the transcript, else the plan files: the plan ("" is
\* none), the sources that were consulted after tool_input, and what the
\* transcript scan returned
resolvePlan(in) ==
    LET fromInput == orElse(in.plan, "")
        fromTranscript == extractPlanFromTranscript(in.transcript)
        fromFile == readPlanFromFile(in.files)
    IN  IF fromInput # ""
        THEN [plan |-> fromInput, consulted |-> <<>>, scan |-> ""]
        ELSE IF fromTranscript # ""
        THEN [plan |-> fromTranscript, consulted |-> <<"transcript">>,
              scan |-> fromTranscript]
        ELSE [plan |-> fromFile.plan,
              consulted |-> <<"transcript">> \o
                            [i \in 1..Len(fromFile.probed) |->
                                IF fromFile.probed[i] = 1 THEN ".claude/plan.md"
                                ELSE "plan.md"],
              scan |-> ""]

isDenyExact(decision) == decision = "deny"

newPlanRequest == "POST /api/projects/:id/plans"

versionsRequestAsPost == newPlanRequest

\* the request that adds a version to the active plan
versionsRequest == "PUT /api/plans/:id/versions"

isDeny(decision) == decision \in {"deny", "denied", "reject"}

\* main(): help, reading and parsing the input, the config guard
RpMain ==
    /\ At("rp_start")
    /\ IF argv \in {"", "help", "--help", "-h"}
       THEN \* showHelp(), and main returns
            /\ stdout' = Append(stdout, Text("help"))
            /\ Exit(0)
            /\ UNCHANGED loc
       ELSE IF input.kind \in {"unreadable", "unparsable"}
       THEN /\ outputAllow
            /\ Exit(0)
            /\ UNCHANGED loc
       ELSE /\ loc' = [loc EXCEPT !.cfg = getConfig(projectsFile)]
            /\ pc' = IF getConfig(projectsFile) = <<>> THEN "rp_oauth"
                     ELSE "rp_plan"
            /\ UNCHANGED <<exitCode, stdout>>
    /\ UNCHANGED <<now, peers, events, gen, files, wr, net, prog, argv, input, calls, cfgMem,
                   api, apiOut>>

\* authenticate(): findFreePort, openBrowser, waitForCallback
RpAuthenticate ==
    /\ At("rp_oauth")
    /\ \E portFound \in BOOLEAN :
         IF ~portFound
         THEN \* findFreePort rejects; main's catch around the OAuth step
              /\ outputAllow
              /\ Exit(0)
              /\ UNCHANGED <<srv, conns>>
         ELSE /\ stdout' = IF authRev = "auth.js"
                           THEN Append(stdout, Text("text")) ELSE stdout
              /\ srv' = [srv EXCEPT !["oauth"] = listen(openBrowser(@))]
              /\ conns' = [conns EXCEPT !["oauth"] = NoConns]
              /\ pc' = "rp_oauth_wait"
              /\ UNCHANGED exitCode
    /\ UNCHANGED <<now, peers, events, gen, files, wr, authRev, prog, argv, input, calls,
                   cfgMem, api, apiOut, loc>>

\* authenticate() after the wait: the entry goes to projects.json
RpAuthResult ==
    /\ At("rp_oauth_wait")
    /\ srv["oauth"].settled \in {"resolved", "rejected"}
    /\ IF srv["oauth"].settled = "rejected"
       THEN /\ outputAllow
            /\ Exit(0)
            /\ UNCHANGED <<files, wr, loc>>
       ELSE LET result == srv["oauth"].result[1]
                projects == readProjectsFile(projectsFile)
                entry == Entry(result.accessToken, result.refreshToken,
                               IF result.expiresIn = 0 THEN 0
                               ELSE now + result.expiresIn,
                               result.projectId, FALSE)
                saved(e) == [d \in DOMAIN projects \cup {procCwd} |->
                                IF d = procCwd THEN e ELSE projects[d]]
            IN  IF result.skipped
                THEN /\ writeProjectsFile(saved(SkippedEntry))
                     /\ pc' = "rp_oauth_skipped"
                     /\ UNCHANGED <<exitCode, stdout, loc>>
                ELSE IF result.accessToken = 0
                THEN \* authenticate throws; main's catch around the OAuth step
                     /\ outputAllow
                     /\ Exit(0)
                     /\ UNCHANGED <<files, wr, loc>>
                ELSE /\ writeProjectsFile(saved(entry))
                     /\ loc' = [loc EXCEPT !.cfg =
                                  findProjectConfig(saved(entry), procCwd)]
                     /\ pc' = "rp_oauth_saved"
                     /\ UNCHANGED <<exitCode, stdout>>
    /\ UNCHANGED <<now, peers, events, gen, net, prog, argv, input, calls, cfgMem, api,
                   apiOut>>

\* authenticate returned { skipped: true }
RpAuthSkipped ==
    /\ At("rp_oauth_skipped")
    /\ outputAllow
    /\ Exit(0)
    /\ UNCHANGED <<now, peers, events, gen, files, wr, net, prog, argv, input, calls, cfgMem,
                   api, apiOut, loc>>

\* authenticate returned the new config
RpAuthSaved ==
    /\ At("rp_oauth_saved")
    /\ stdout' = IF authRev = "auth.js"
                 THEN Append(stdout, Text("text")) ELSE stdout
    /\ setConfig(loc.cfg)
    /\ pc' = "rp_plan"
    /\ UNCHANGED <<now, peers, events, gen, files, wr, net, prog, argv, input, exitCode,
                   calls, api, apiOut, loc>>

\* the plan content
RpPlan ==
    /\ At("rp_plan")
    /\ loc' = [loc EXCEPT !.plan = resolvePlan(input).plan,
                          !.consulted = resolvePlan(input).consulted,
                          !.scan = resolvePlan(input).scan]
    /\ IF resolvePlan(input).plan = ""
       THEN /\ outputAllow
            /\ Exit(0)
       ELSE /\ pc' = "rp_get_project"
            /\ UNCHANGED <<exitCode, stdout>>
    /\ UNCHANGED <<now, peers, events, gen, files, wr, net, prog, argv, input, calls, cfgMem,
                   api, apiOut>>

RpGetProject ==
    /\ At("rp_get_project")
    /\ GetProjectId("rp_upload")
    /\ UNCHANGED <<now, peers, events, gen, files, wr, net, prog, argv, input, exitCode,
                   stdout, calls, cfgMem, api, apiOut>>

\* a new version of the active plan, or a new plan
RpUpload ==
    /\ At("rp_upload")
    /\ IF /\ getActivePlan # <<>>
          /\ getActivePlan[1].projectId = loc.projectId
          /\ getActivePlan[1].sessionId = input.sessionId
       THEN /\ loc' = [loc EXCEPT !.activePlanId = getActivePlan[1].planId]
            /\ CallApi(versionsRequest, getActivePlan[1].planId,
                       loc.plan, "rp_put_ret")
       ELSE /\ CallApi(newPlanRequest, loc.projectId, loc.plan,
                       "rp_post_ret")
            /\ UNCHANGED loc
    /\ UNCHANGED <<now, peers, events, gen, files, wr, net, prog, argv, input, exitCode,
                   stdout, calls, cfgMem, apiOut>>

RpPutRet ==
    /\ At("rp_put_ret")
    /\ IF apiOut.status = "throw"
       THEN \* planId = null: fall through to POST
            /\ loc' = [loc EXCEPT !.putFailed = TRUE]
            /\ CallApi(newPlanRequest, loc.projectId, loc.plan,
                       "rp_post_ret")
            /\ UNCHANGED <<files, wr>>
       ELSE /\ loc' = [loc EXCEPT !.planId = loc.activePlanId]
            /\ setActivePlan(loc.activePlanId, loc.projectId, input.sessionId)
            /\ pc' = "rp_port"
            /\ UNCHANGED api
    /\ UNCHANGED <<now, peers, events, gen, net, prog, argv, input, exitCode, stdout, calls,
                   cfgMem, apiOut>>

RpPostRet ==
    /\ At("rp_post_ret")
    /\ IF apiOut.status = "throw"
       THEN /\ pc' = "thrown"
            /\ UNCHANGED <<exitCode, stdout, files, wr, loc>>
       ELSE IF apiOut.null \/ apiOut.id = ""
       THEN /\ outputAllow
            /\ Exit(0)
            /\ UNCHANGED <<files, wr, loc>>
       ELSE /\ loc' = [loc EXCEPT !.planId = apiOut.id]
            /\ setActivePlan(apiOut.id, loc.projectId, input.sessionId)
            /\ pc' = "rp_port"
            /\ UNCHANGED <<exitCode, stdout>>
    /\ UNCHANGED <<now, peers, events, gen, net, prog, argv, input, calls, cfgMem, api,
                   apiOut>>

RpFindFreePort ==
    /\ At("rp_port")
    /\ \E portFound \in BOOLEAN :
         pc' = IF portFound THEN "rp_browser" ELSE "thrown"
    /\ UNCHANGED <<now, peers, events, gen, files, wr, net, prog, argv, input, exitCode,
                   stdout, calls, cfgMem, api, apiOut, loc>>

\* await openBrowser(reviewUrl): the port was found and released, no server
\* of this process exists yet
RpOpenBrowser ==
    /\ At("rp_browser")
    /\ srv' = [srv EXCEPT !["plan"] = openBrowser(@)]
    /\ pc' = "rp_listen"
    /\ UNCHANGED <<now, peers, events, gen, files, wr, authRev, conns, prog, argv, input,
                   exitCode, stdout, calls, cfgMem, api, apiOut, loc>>

\* openBrowser has returned; the callback server is started
RpWaitForCallback ==
    /\ At("rp_listen")
    /\ waitForCallback("plan")
    /\ pc' = "rp_wait"
    /\ UNCHANGED <<now, peers, events, gen, files, wr, authRev, prog, argv, input, exitCode,
                   stdout, calls, cfgMem, api, apiOut, loc>>

\* the wait has settled: the decision
RpDecision ==
    /\ At("rp_wait")
    /\ srv["plan"].settled \in {"resolved", "rejected"}
    /\ IF srv["plan"].settled = "rejected"
       THEN /\ pc' = "thrown"
            /\ UNCHANGED <<exitCode, stdout, files>>
       ELSE LET result == srv["plan"].result[1] IN
            IF isDeny(result.decision)
            THEN /\ outputDeny(result.feedback)
                 /\ Exit(0)
                 /\ UNCHANGED files
            ELSE /\ activePlanFile' = clearActivePlan
                 /\ UNCHANGED <<projectsFile, taskMapFile, activeTaskFile>>
                 /\ outputAllow
                 /\ Exit(0)
    /\ UNCHANGED <<now, peers, events, gen, wr, net, prog, argv, input, calls, cfgMem, api,
                   apiOut, loc>>

\* catch (err) { outputAllow() } and process.exit(0)
RpCatchClears ==
    /\ prog = "review-plan"
    /\ At("thrown")
    /\ outputAllow
    /\ Exit(0)
    /\ activePlanFile' = clearActivePlan
    /\ UNCHANGED <<now, peers, events, gen, projectsFile, taskMapFile, activeTaskFile,
                   wr, net, prog, argv, input, calls, cfgMem, api, apiOut, loc>>

RpCatch ==
    /\ prog = "review-plan"
    /\ At("thrown")
    /\ outputAllow
    /\ Exit(0)
    /\ UNCHANGED <<now, peers, events, gen, files, wr, net, prog, argv, input, calls, cfgMem,
                   api, apiOut, loc>>

----------------------------------------------------------------------------
(* The plan-review hook as a system *)

GoodLink == [d \in {DirWP} |-> Tokens(1, -1, fiveMinutes + 1, "J1")]

\* the hook input, with the transcript it points to and the candidate plan
\* files of its cwd
RpInput(kind, plan, transcript, planFiles) ==
    [kind |-> kind, respId |-> "", claimId |-> "", taskId |-> "",
     status |-> "", other |-> FALSE, plan |-> plan,
     transcript |-> transcript, files |-> planFiles,
     sessionId |-> IF kind = "object" THEN "s1" ELSE ""]

PlanInInput == RpInput("object", <<"P">>, NoTranscript, NoFiles)
NoPlanInput == RpInput("object", <<>>, NoTranscript, NoFiles)

TranscriptT == Transcript(<<Line(TRUE, "assistant", TRUE, <<WriteA>>)>>)
FilesF      == <<MissingFile, File(<<"F2", "\n">>)>>

RpInputs ==
    {RpInput(k, <<>>, NoTranscript, NoFiles) :
        k \in {"unreadable", "unparsable"}}
    \cup {RpInput("null", <<>>, NoTranscript, f) : f \in {NoFiles, FilesF}}
    \cup {PlanInInput, NoPlanInput,
          RpInput("object", <<"P">>, TranscriptT, FilesF),
          RpInput("object", <<>>, TranscriptT, FilesF),
          RpInput("object", <<>>, NoTranscript, FilesF)}

ActivePlans ==
    {NoFile(<<>>)}
    \cup {JsonFile(<<activePlanJson("P1", "J1", sid, 0)>>) :
            sid \in {"s0", "s1"}}

Init ==
    /\ InitCommon
    /\ prog = "review-plan"
    /\ pc = "rp_start"
    /\ taskMapFile = NoFile(NoMap)
    /\ activeTaskFile = NoFile(<<>>)
    /\ srv = [k \in Servers |-> NoServer]
    /\ conns = [k \in Servers |-> NoConns]
    /\ authRev \in IF getConfig(projectsFile) = <<>>
                   THEN {"auth.js", "part_008"} ELSE {"auth.js"}
    /\ \/ /\ argv = "file"
          /\ input = PlanInInput
          /\ activePlanFile = NoFile(<<>>)
       \/ /\ argv = "file"
          /\ projectsFile.data = NoProjects
          /\ input = NoPlanInput
          /\ activePlanFile = NoFile(<<>>)
       \/ /\ argv = "file"
          /\ projectsFile.data = GoodLink
          /\ \/ input \in RpInputs /\ activePlanFile = NoFile(<<>>)
             \/ input = PlanInInput /\ activePlanFile \in ActivePlans
       \/ /\ argv = "help"
          /\ projectsFile.data = GoodLink
          /\ input = RpInput("unreadable", <<>>, NoTranscript, NoFiles)
          /\ activePlanFile = NoFile(<<>>)

Next ==
    \/ RpMain
    \/ RpAuthenticate
    \/ RpAuthResult
    \/ RpAuthSkipped
    \/ RpAuthSaved
    \/ RpPlan
    \/ RpGetProject
    \/ RpUpload
    \/ RpPutRet
    \/ RpPostRet
    \/ RpFindFreePort
    \/ RpOpenBrowser
    \/ RpWaitForCallback
    \/ RpDecision
    \/ RpCatch
    \/ GpiStart
    \/ GpiInfoRet
    \/ ApiStart
    \/ ApiRefreshResponse
    \/ ApiRefreshMem
    \/ ApiDataResponse
    \/ WriteData
    \/ RenameTmp
    \/ CrashDuringWrite
    \/ Tick
    \/ Disconnect
    \/ BindOk
    \/ BindError
    \/ Connect
    \/ ConnEnd
    \/ RequestOther
    \/ RequestInvalid
    \/ RequestCallback
    \/ Timeout
    \/ CloseEvent

Spec == Init /\ [][Next]_vars

----------------------------------------------------------------------------
(* The resolution of the plan text, over many transcripts and plan files *)

MaxLines == 2
MaxBlocks == 2

PlanWrites == {WriteA, WriteB, WriteOther}

Lines ==
    {Malformed, NoMessage, NotArray, UserLine, EmptyLine, BadLine}
    \cup {Line(TRUE, "assistant", TRUE, blocks) :
            blocks \in UNION {[1..n -> PlanWrites] : n \in 1..MaxBlocks}}

Transcripts ==
    {NoTranscript, [state |-> "unreadable", lines |-> <<>>]}
    \cup {Transcript(lines) :
            lines \in UNION {[1..n -> Lines] : n \in 0..MaxLines}}

CandidateFiles(text) ==
    {MissingFile, UnreadableFile, File(<<>>), File(<<"\n">>),
     File(<<" ", text, "\n">>)}

PlanFiles ==
    {<<a, b>> : a \in CandidateFiles("F1"), b \in CandidateFiles("F2")}

ToolPlans == {<<>>, <<"">>, <<"P">>}

PlanInputs ==
    {RpInput("object", p, t, f) :
        p \in ToolPlans, t \in {NoTranscript, TranscriptT}, f \in PlanFiles}
    \cup {RpInput("object", <<>>, t, f) :
            t \in Transcripts,
            f \in {NoFiles, <<File(<<"F1">>), File(<<"F2">>)>>}}

InitPlan ==
    /\ InitCommon
    /\ projectsFile.data = GoodLink
    /\ prog = "review-plan"
    /\ pc = "rp_start"
    /\ argv = "file"
    /\ input \in PlanInputs
    /\ taskMapFile = NoFile(NoMap)
    /\ activeTaskFile = NoFile(<<>>)
    /\ activePlanFile = NoFile(<<>>)
    /\ authRev = "auth.js"
    /\ srv = [k \in Servers |-> NoServer]
    /\ conns = [k \in Servers |-> NoConns]

NextPlan ==
    \/ RpMain
    \/ RpPlan

SpecPlan == InitPlan /\ [][NextPlan]_vars

----------------------------------------------------------------------------
(* config.js, task-map.js, plan-tracker.js: the operations on the persisted *)
(* files, each called once in a process of its own, on files of any content *)

Args(ccTaskId, lsTaskId, planId, projectId, sessionId, data) ==
    [ccTaskId |-> ccTaskId, lsTaskId |-> lsTaskId, planId |-> planId,
     projectId |-> projectId, sessionId |-> sessionId, data |-> data,
     cwd |-> procCwd]

NoArgs == Args("", "", "", "", "", NoProjects)

WriteCalls ==
    {<<"setMapping", Args(k, v, "", "", "", NoProjects)>> :
        k \in {"c1", "c2"}, v \in {"L1", "L2"}}
    \cup {<<"setActiveTask", Args("", v, "", "", "", NoProjects)>> :
            v \in {"L1", "L2"}}
    \cup {<<"setActivePlan", Args("", "", p, "J1", s, NoProjects)>> :
            p \in {"P1", "P2"}, s \in {"", "s1", "s2"}}
    \cup {<<"writeProjectsFile", Args("", "", "", "", "", d)>> :
            d \in InitProjects}

ReadCalls ==
    {<<"getMapping", Args(k, "", "", "", "", NoProjects)>> :
        k \in {"c1", "c2"}}
    \cup {<<op, NoArgs>> : op \in {"readProjectsFile", "getConfig", "readMap",
                                    "getActiveTask", "getActivePlan"}}

\* the disconnect command, run in each directory
DisconnectCalls == {<<"disconnect", [NoArgs EXCEPT !.cwd = d]>> : d \in Dirs}

\* what is not an object the program wrote
Unparsed == {"missing", "garbage", "null"}

\* the link of each folder names a project of its own
LinkOf(dir) ==
    Tokens(1, -1, fiveMinutes + 1,
           CASE dir = RootDir -> "J0" [] dir = DirW -> "J1"
             [] dir = DirWP -> "J2" [] OTHER -> "J3")

ProjectsFiles ==
    {[state |-> st, data |-> NoProjects] : st \in Unparsed \cup {"partial"}}
    \cup {JsonFile([d \in linked |-> LinkOf(d)]) : linked \in SUBSET Dirs}

TaskMapFiles ==
    {[state |-> st, data |-> NoMap] : st \in Unparsed}
    \cup {JsonFile(NoMap), JsonFile([k \in {"c1"} |-> "L1"])}

ActiveTaskFiles ==
    {[state |-> st, data |-> <<>>] : st \in Unparsed}
    \cup {JsonFile(<<activeTaskJson("L1", 0)>>),
          JsonFile(<<[updatedAt |-> 0]>>)}

ActivePlanFiles ==
    {[state |-> st, data |-> <<>>] : st \in Unparsed}
    \cup {JsonFile(<<activePlanJson("P1", "J1", "s1", 0)>>),
          JsonFile(<<[planId |-> "P1", updatedAt |-> 0]>>)}

InitFiles ==
    /\ InitProcess
    /\ peers = <<>>
    /\ prog = "files"
    /\ pc = "fs_start"
    /\ \E call \in WriteCalls \cup ReadCalls \cup DisconnectCalls :
          argv = call[1] /\ input = call[2]
    /\ projectsFile \in ProjectsFiles
    /\ taskMapFile \in TaskMapFiles
    /\ activeTaskFile \in ActiveTaskFiles
    /\ activePlanFile \in ActivePlanFiles

FsUnchanged ==
    UNCHANGED <<now, peers, events, gen, net, prog, argv, input, exitCode, stdout, calls,
                cfgMem, api, apiOut, loc>>

\* setMapping(ccTaskId, lsTaskId): map[ccTaskId] = lsTaskId throws when
\* readMap() has returned null
FsSetMapping ==
    /\ prog = "files" /\ At("fs_start") /\ argv = "setMapping"
    /\ IF parsesToNull(taskMapFile)
       THEN /\ pc' = "fs_thrown"
            /\ UNCHANGED <<files, wr>>
       ELSE /\ setMapping(input.ccTaskId, input.lsTaskId)
            /\ pc' = "fs_written"
    /\ FsUnchanged

FsSetActiveTask ==
    /\ prog = "files" /\ At("fs_start") /\ argv = "setActiveTask"
    /\ setActiveTask(input.lsTaskId)
    /\ pc' = "fs_written"
    /\ FsUnchanged

FsSetActivePlan ==
    /\ prog = "files" /\ At("fs_start") /\ argv = "setActivePlan"
    /\ setActivePlan(input.planId, input.projectId, input.sessionId)
    /\ pc' = "fs_written"
    /\ FsUnchanged

FsWriteProjectsFile ==
    /\ prog = "files" /\ At("fs_start") /\ argv = "writeProjectsFile"
    /\ writeProjectsFile(input.data)
    /\ pc' = "fs_written"
    /\ FsUnchanged

\* the read a call makes: map[ccTaskId] in getMapping and projects[dir] in
\* findProjectConfig are outside any try and throw on null; the reads of the
\* active task and the active plan happen inside the try
readThrows(op) ==
    CASE op \in {"getMapping", "setMapping"} -> parsesToNull(taskMapFile)
      [] op = "getConfig" -> parsesToNull(projectsFile)
      [] OTHER -> FALSE

\* the read that comes back after a write
readBack(op) ==
    CASE op = "setMapping" -> "getMapping"
      [] op = "setActiveTask" -> "getActiveTask"
      [] op = "setActivePlan" -> "getActivePlan"
      [] op = "writeProjectsFile" -> "readProjectsFile"
      [] OTHER -> op

\* a read: the call itself, or the read that follows the finished write
FsRead ==
    /\ prog = "files"
    /\ \/ At("fs_start") /\ \E call \in ReadCalls : argv = call[1]
       \/ At("fs_written")
    /\ pc' = IF readThrows(readBack(argv)) THEN "fs_thrown" ELSE "fs_done"
    /\ loc' = IF argv = "getConfig" /\ ~readThrows(argv)
              THEN [loc EXCEPT !.cfg = getConfig(projectsFile)]
              ELSE loc
    /\ UNCHANGED <<files, wr>>
    /\ UNCHANGED <<now, peers, events, gen, net, prog, argv, input, exitCode,
                   stdout, calls, cfgMem, api, apiOut>>

\* cmdDisconnect run in input.cwd: Object.entries(projects) of what
\* readProjectsFile returns, the folders to remove, writeProjectsFile
FsDisconnect ==
    /\ prog = "files" /\ At("fs_start") /\ argv = "disconnect"
    /\ IF parsesToNull(projectsFile)
       THEN /\ pc' = "fs_thrown"
            /\ UNCHANGED <<files, wr>>
       ELSE LET projects == readProjectsFile(projectsFile)
                remaining == [d \in DOMAIN projects \
                                     toRemove(projects, input.cwd) |->
                                projects[d]]
            IN  /\ pc' = "fs_done"
                /\ IF toRemove(projects, input.cwd) = {}
                   THEN UNCHANGED <<files, wr>>
                   ELSE writeProjectsFile(remaining)
    /\ FsUnchanged

NextFiles ==
    \/ FsDisconnect
    \/ FsSetMapping
    \/ FsSetActiveTask
    \/ FsSetActivePlan
    \/ FsWriteProjectsFile
    \/ FsRead
    \/ WriteData
    \/ RenameTmp
    \/ CrashDuringWrite

SpecFiles == InitFiles /\ [][NextFiles]_vars

----------------------------------------------------------------------------
(* Two hook processes update the same file at the same time.  Each reads   *)
(* the file, changes what it read and writes the whole file back: by       *)
(* tmp + rename for task-map.json, by writeFileSync on the file itself for *)
(* projects.json                                                           *)

Procs == {"a", "b"}

\* JSON.stringify(data, null, 2).length, counted in entries: every entry of
\* the model prints with the same number of characters
textSize(data) == Cardinality(DOMAIN data)

\* the bytes projects.json holds
diskSize(f) ==
    CASE f.state = "ok" -> textSize(f.data)
      [] f.state = "mixed" -> f.size
      [] OTHER -> 0

\* writeSync of the text of data at offset 0 of a file that was opened
\* before: what the file held beyond the end of the text stays
writeAtStart(f, data) ==
    IF diskSize(f) > textSize(data)
    THEN [state |-> "mixed", data |-> NoProjects, size |-> diskSize(f)]
    ELSE JsonFile(data)

Peer(op, key, value) ==
    [op |-> op, key |-> key, value |-> value, pc |-> "start", data |-> <<>>,
     seq |-> 0]

MapRaces ==
    {[p \in Procs |-> IF p = "a" THEN Peer("setMapping", "c1", v)
                      ELSE Peer("setMapping", k, "L2")] :
        v \in {"L1", "L3"}, k \in {"c1", "c2"}}

\* a refresh persists generation value for folder key; authenticate saves
\* the link of folder key
ProjectsRaces ==
    {[p \in Procs |-> IF p = "a" THEN Peer("refresh", DirWP, 2)
                      ELSE Peer(op, d, 3)] :
        op \in {"refresh", "authenticate"}, d \in {DirWP, DirW}}
    \cup {[p \in Procs |-> IF p = "a" THEN Peer("authenticate", DirWP, 2)
                           ELSE Peer("authenticate", d, 3)] :
            d \in {DirWP, DirW}}

fileOf(op) == IF op = "setMapping" THEN "task-map.json" ELSE "projects.json"

InitRace ==
    /\ InitProcess
    /\ prog = "race"
    /\ pc = "race"
    /\ input = NoArgs
    /\ \/ \E race \in MapRaces :
             peers = race /\ argv = fileOf(race["a"].op)
       \/ \E race \in ProjectsRaces :
             peers = race /\ argv = fileOf(race["a"].op)
    /\ projectsFile \in
          {JsonFile(d) : d \in {NoProjects, GoodLink,
                                [x \in {DirW, DirWP} |->
                                    Tokens(1, -1, fiveMinutes + 1, "J1")]}}
    /\ taskMapFile \in {NoFile(NoMap), JsonFile([k \in {"c2"} |-> "L9"])}
    /\ activeTaskFile = NoFile(<<>>)
    /\ activePlanFile = NoFile(<<>>)

RaceUnchanged ==
    UNCHANGED <<now, events, gen, wr, net, prog, argv, input, pc, exitCode,
                stdout, calls, cfgMem, api, apiOut, loc>>

\* what the process writes back, from what it has read
modified(peer) ==
    CASE peer.op = "setMapping" ->
           [k \in DOMAIN readMap \cup {peer.key} |->
               IF k = peer.key THEN peer.value ELSE readMap[k]]
      [] peer.op = "refresh" ->
           LET projects == readProjectsFile(projectsFile)
           IN  [projects EXCEPT ![peer.key] =
                  refreshedEntry(@, [access_token |-> peer.value,
                                     refresh_token |-> 0 - peer.value,
                                     expires_in |-> 60], now)]
      [] OTHER ->
           LET projects == readProjectsFile(projectsFile)
           IN  [d \in DOMAIN projects \cup {peer.key} |->
                  IF d = peer.key
                  THEN Tokens(peer.value, 0 - peer.value, now + 60, "J1")
                  ELSE projects[d]]

\* readMap() / readProjectsFile() and the change in memory; a refresh
\* writes nothing when the folder has no entry
RaceRead(p) ==
    /\ peers[p].pc = "start"
    /\ IF /\ peers[p].op = "refresh"
          /\ peers[p].key \notin DOMAIN readProjectsFile(projectsFile)
       THEN peers' = [peers EXCEPT ![p].pc = "done"]
       ELSE peers' = [peers EXCEPT ![p].pc = "read",
                                   ![p].data = modified(peers[p])]
    /\ UNCHANGED files
    /\ RaceUnchanged

\* writeFileSync opens its target: the tmp file, or projects.json itself,
\* which the open truncates
RaceOpen(p) ==
    /\ peers[p].pc = "read"
    /\ peers' = [peers EXCEPT ![p].pc = "open"]
    /\ IF fileOf(peers[p].op) = "projects.json"
       THEN /\ projectsFile' = [state |-> "partial", data |-> NoProjects]
            /\ UNCHANGED <<taskMapFile, activeTaskFile, activePlanFile>>
       ELSE UNCHANGED files
    /\ RaceUnchanged

\* the replace: renameSync of the tmp file over task-map.json, or the write
\* of the text into projects.json
RaceWrite(p) ==
    /\ peers[p].pc = "open"
    /\ peers' = [peers EXCEPT
                   ![p].pc = "done",
                   ![p].seq = 1 + Cardinality({q \in Procs :
                                                 peers[q].seq > 0})]
    /\ IF fileOf(peers[p].op) = "projects.json"
       THEN /\ projectsFile' = writeAtStart(projectsFile, peers[p].data)
            /\ UNCHANGED <<taskMapFile, activeTaskFile, activePlanFile>>
       ELSE /\ taskMapFile' = JsonFile(peers[p].data)
            /\ UNCHANGED <<projectsFile, activeTaskFile, activePlanFile>>
    /\ RaceUnchanged

NextRace ==
    \/ \E p \in Procs : RaceRead(p)
    \/ \E p \in Procs : RaceOpen(p)
    \/ \E p \in Procs : RaceWrite(p)

SpecRace == InitRace /\ [][NextRace]_vars

----------------------------------------------------------------------------
(* ls-cli.js: the command `lightsprint create <title> [flags]`.  The        *)
(* arguments are the words after the command                                *)

consoleLog(message) ==
    stdout' = Append(stdout, [kind |-> "log", behavior |-> "",
                              message |-> message])

NoFlags == [titleParts |-> <<>>, description |-> "", complexity |-> "",
            status |-> "todo"]

\* the loop over args: a flag takes the next word when there is a non-empty
\* one, every other word belongs to the title
RECURSIVE parseCreate(_, _, _)
parseCreate(args, i, acc) ==
    IF i > Len(args) THEN acc
    ELSE LET hasValue == i + 1 <= Len(args) /\ args[i + 1] # "" IN
         IF args[i] = "--description" /\ hasValue
         THEN parseCreate(args, i + 2, [acc EXCEPT !.description = args[i + 1]])
         ELSE IF args[i] = "--complexity" /\ hasValue
         THEN parseCreate(args, i + 2, [acc EXCEPT !.complexity = args[i + 1]])
         ELSE IF args[i] = "--status" /\ hasValue
         THEN parseCreate(args, i + 2, [acc EXCEPT !.status = args[i + 1]])
         ELSE parseCreate(args, i + 1,
                          [acc EXCEPT !.titleParts = Append(@, args[i])])

\* titleParts.join(' ')
RECURSIVE join(_)
join(parts) ==
    IF parts = <<>> THEN ""
    ELSE IF Len(parts) = 1 THEN parts[1]
    ELSE parts[1] \o " " \o join(Tail(parts))

createBodyWithNulls(title, description, complexity, status) ==
    [title |-> title, projectStatus |-> status, description |-> description,
     complexity |-> complexity]

\* { title, projectStatus: status }, with description and complexity when
\* they were given
createBody(title, description, complexity, status) ==
    [title |-> title, projectStatus |-> status]
    @@ (IF description # "" THEN [description |-> description] ELSE <<>>)
    @@ (IF complexity # "" THEN [complexity |-> complexity] ELSE <<>>)

createRequest == "POST /api/projects/:id/tasks"

\* cmdCreate up to getProjectId()
CliCreate ==
    /\ prog = "ls-cli"
    /\ At("cli_start")
    /\ IF input.args = <<>>
       THEN /\ Exit(1)
            /\ UNCHANGED loc
       ELSE /\ GetProjectId("cli_create_parse")
            /\ UNCHANGED exitCode
    /\ UNCHANGED <<now, peers, events, gen, files, wr, net, prog, argv, input,
                   stdout, calls, cfgMem, api, apiOut>>

\* the arguments are parsed and the task is posted
CliCreatePost ==
    /\ At("cli_create_parse")
    /\ LET parsed == parseCreate(input.args, 1, NoFlags)
           title  == join(parsed.titleParts)
       IN  IF title = ""
           THEN /\ Exit(1)
                /\ UNCHANGED api
           ELSE /\ CallApi(createRequest, loc.projectId,
                           createBody(title, parsed.description,
                                      parsed.complexity, parsed.status),
                           "cli_create_ret")
                /\ UNCHANGED exitCode
    /\ UNCHANGED <<now, peers, events, gen, files, wr, net, prog, argv, input,
                   stdout, calls, cfgMem, apiOut, loc>>

\* the answer: data.task is printed; without a task in the answer task.title
\* throws
CliCreateRet ==
    /\ At("cli_create_ret")
    /\ IF apiOut.status = "throw" \/ apiOut.null \/ apiOut.id = ""
       THEN /\ pc' = "thrown"
            /\ UNCHANGED stdout
       ELSE /\ consoleLog("ID: " \o apiOut.id)
            /\ pc' = "cli_done"
    /\ UNCHANGED <<now, peers, events, gen, files, wr, net, prog, argv, input,
                   exitCode, calls, cfgMem, api, apiOut, loc>>

\* cliMain returns, or rejects with the error nothing in ls-cli.js catches
CliEnd ==
    /\ prog = "ls-cli"
    /\ \/ At("cli_done") /\ Exit(0)
       \/ At("thrown") /\ Uncaught
    /\ UNCHANGED <<now, peers, events, gen, files, wr, net, prog, argv, input,
                   stdout, calls, cfgMem, api, apiOut, loc>>

CreateArgs ==
    {<<>>,
     <<"Fix", "login", "bug">>,
     <<"Fix", "login", "bug", "--complexity", "high">>,
     <<"Fix", "--status", "done">>,
     <<"--description", "d1", "Fix", "--complexity", "low", "--status",
       "in_review">>,
     <<"--complexity", "high">>,
     <<"Fix", "--complexity">>,
     <<"Fix", "--description", "", "now">>}

InitCli ==
    /\ InitCommon
    /\ prog = "ls-cli"
    /\ pc = "cli_start"
    /\ argv = "create"
    /\ \E args \in CreateArgs : input = [args |-> args]
    /\ taskMapFile = NoFile(NoMap)
    /\ activeTaskFile = NoFile(<<>>)
    /\ activePlanFile = NoFile(<<>>)
    /\ authRev = "auth.js"
    /\ srv = [k \in Servers |-> NoServer]
    /\ conns = [k \in Servers |-> NoConns]

NextCli ==
    \/ CliCreate
    \/ CliCreatePost
    \/ CliCreateRet
    \/ CliEnd
    \/ GpiStart
    \/ GpiInfoRet
    \/ ApiStart
    \/ ApiRefreshResponse
    \/ ApiRefreshMem
    \/ ApiDataResponse
    \/ WriteData
    \/ CrashDuringWrite
    \/ Tick

SpecCli == InitCli /\ [][NextCli]_vars

----------------------------------------------------------------------------
(* A sequence of task-sync events in one linked folder: each event is one   *)
(* run of the hook; the files the runs leave are what the next run finds    *)

MaxEvents == 3

\* task-map.json as earlier create events left it
SeqMap == [c \in {"c1", "c2"} |-> IF c = "c1" THEN "L1" ELSE "L2"]

SeqRuns ==
    {<<"update", SyncInput("object", "", "", t, s, FALSE)>> :
        t \in {"c1", "c2"}, s \in {"in_progress", "completed"}}
    \cup {<<"update", SyncInput("object", "", "", "c1", s, FALSE)>> :
            s \in {"deleted", "pending"}}
    \cup {<<"update", SyncInput("object", "", "", "c9", s, FALSE)>> :
            s \in {"in_progress", "completed"}}
    \cup {<<"subagent", SyncInput("object", "", "", "", "", FALSE)>>}

SeqEntries ==
    {Tokens(1, -1, fiveMinutes + 1, "J1"), Tokens(1, -1, 0, "J1"),
     Tokens(1, 0, 0, "J1")}

InitSeq ==
    /\ InitProcess
    /\ peers = <<>>
    /\ prog = "sync-task"
    /\ pc = "st_start"
    /\ \E run \in SeqRuns : argv = run[1] /\ input = run[2]
    /\ \E e \in SeqEntries : projectsFile = JsonFile([d \in {DirWP} |-> e])
    /\ taskMapFile = JsonFile(SeqMap)
    /\ activeTaskFile = NoFile(<<>>)
    /\ activePlanFile = NoFile(<<>>)

\* what the run that has just ended was and what it sent
eventOf ==
    [argv |-> argv,
     taskId |-> input.taskId,
     status |-> input.status,
     comments |->
        IF argv = "subagent"
        THEN [i \in 1..Len(SelectSeq(calls, LAMBDA c : c.kind = "data")) |->
                SelectSeq(calls, LAMBDA c : c.kind = "data")[i].target]
        ELSE <<>>,
     ncalls |-> IF argv = "subagent" THEN Len(calls) ELSE 0,
     sent |-> /\ argv = "subagent"
              /\ api.phase = "done"
              /\ api.refreshed # "fail"]

\* the run has ended; Claude Code fires the next event, a new process
NextEvent ==
    /\ pc = "exited"
    /\ Len(events) < MaxEvents
    /\ events' = Append(events, eventOf)
    /\ IF Len(events) + 1 < MaxEvents
       THEN /\ pc' = "st_start"
            /\ \E run \in SeqRuns : argv' = run[1] /\ input' = run[2]
       ELSE UNCHANGED <<pc, argv, input>>
    /\ exitCode' = -1
    /\ stdout' = <<>>
    /\ calls' = <<>>
    /\ cfgMem' = <<>>
    /\ api' = ApiIdle
    /\ apiOut' = NoOut
    /\ loc' = LocInit
    /\ UNCHANGED <<now, peers, gen, files, wr, net, prog>>

NextSeq ==
    \/ StMain
    \/ StUpdate
    \/ StUpdate2
    \/ StSubagent
    \/ StExit
    \/ ApiStart
    \/ ApiRefreshResponse
    \/ ApiRefreshMem
    \/ ApiDataResponse
    \/ WriteData
    \/ RenameTmp
    \/ NextEvent

SpecSeq == InitSeq /\ [][NextSeq]_vars

----------------------------------------------------------------------------
(* Properties *)

\* the decision objects on standard output
Decisions == SelectSeq(stdout, LAMBDA e : e.kind = "decision")

\* the process was started by the hook wrapper, which always passes the
\* input file
HookRun == prog = "review-plan" /\ argv = "file"

\* the process has ended by itself
Ended == pc \in {"exited", "crashed"}

\* the requests the current apiRequest call has sent
Started == api.phase # "idle" /\ api.cfg0 # <<>>
Mine == SubSeq(calls, api.callStart + 1, Len(calls))
Refreshes == Cardinality({i \in 1..Len(Mine) : Mine[i].kind = "refresh"})
DataCalls == {i \in 1..Len(Mine) : Mine[i].kind = "data"}

\* at the start of the call the stored token expired within five minutes,
\* had expired, or had no usable expiry
NeedsRefresh ==
    \/ api.cfg0[1].expiresAt = 0
    \/ api.cfg0[1].expiresAt <= api.t0 + fiveMinutes

sameTokens(a, b) ==
    a.accessToken = b.accessToken /\ a.refreshToken = b.refreshToken

\* C1: every run of the plan-review hook that ends has exit code 0 and has
\* written a decision; none ends in a crash, a nonzero exit or without a
\* decision.
C1_FailsOpen ==
    (HookRun /\ Ended) =>
        /\ pc = "exited"
        /\ exitCode = 0
        /\ Len(Decisions) >= 1

\* C2: a plan-review hook run never writes two decisions, and when it ends it
\* has written exactly one.
C2_ExactlyOneDecision ==
    HookRun =>
        /\ Len(Decisions) <= 1
        /\ Ended => Len(Decisions) = 1

\* C3: no persisted file is ever visible partially written, and while a write
\* is under way the target still holds the previously committed content.
C3_WritesAtomic ==
    /\ projectsFile.state # "partial"
    /\ wr.stage # "idle" =>
          CASE wr.file = "projects.json"    -> projectsFile = wr.prev
            [] wr.file = "task-map.json"    -> taskMapFile = wr.prev
            [] wr.file = "active-task.json" -> activeTaskFile = wr.prev
            [] OTHER                        -> activePlanFile = wr.prev

\* C4: every run of the task-sync hook that ends, ends with exit code 0.
C4_SyncExitsZero ==
    (prog = "sync-task" /\ Ended) => exitCode = 0

C6_OneRefreshWheneverNeeded ==
    Started =>
        IF NeedsRefresh
        THEN /\ Refreshes <= 1
             /\ (api.phase = "done" \/ DataCalls # {}) =>
                   Refreshes = 1 /\ Mine[1].kind = "refresh"
        ELSE Refreshes = 0

\* C6, amended: when the stored token needs a refresh and a refresh token is
\* stored, the call makes exactly one refresh call, before any data call;
\* when it needs one and no refresh token is stored, the call sends nothing
\* at all; when the token is valid for more than five minutes, the call
\* makes no refresh call.
C6_OneRefreshWhenPossible ==
    Started =>
        IF ~NeedsRefresh THEN Refreshes = 0
        ELSE IF api.cfg0[1].refreshToken = 0 THEN Mine = <<>>
        ELSE /\ Refreshes <= 1
             /\ (api.phase = "done" \/ DataCalls # {}) =>
                   Refreshes = 1 /\ Mine[1].kind = "refresh"

\* the token expires in exactly five minutes: refreshed, then the data call
C6_Witness ==
    /\ Started
    /\ api.phase = "done"
    /\ api.cfg0[1].expiresAt = api.t0 + fiveMinutes
    /\ api.cfg0[1].refreshToken # 0
    /\ Refreshes = 1
    /\ DataCalls = {2}

\* C7: when a needed refresh fails, apiRequest throws the re-authenticate
\* error, no data request of that call has been sent, the in-memory config
\* is the one the call started with, and the stored entry of the folder
\* still holds the tokens the call started with.
C7_RefreshFailureAborts ==
    (Started /\ api.phase = "done" /\ api.refreshed = "fail") =>
        /\ apiOut = Throw("reauth")
        /\ DataCalls = {}
        /\ cfgMem = api.cfg0
        /\ ~api.persisted
        /\ LET projects == readProjectsFile(projectsFile)
               folder == api.cfg0[1].folder
           IN  folder \in DOMAIN projects =>
                   sameTokens(projects[folder], api.cfg0[1])

\* the token endpoint was asked and the refresh failed
C7_Witness ==
    /\ Started
    /\ api.phase = "done"
    /\ api.refreshed = "fail"
    /\ Refreshes = 1
    /\ apiOut.err = "reauth"
    /\ api.cfg0[1].folder \in DOMAIN readProjectsFile(projectsFile)

\* C8 as stated: after a successful refresh the new tokens have been written
\* to the folder's entry, are in memory, and the data request carries the
\* new access token.
C8_RefreshAlwaysPersisted ==
    (Started /\ api.refreshed = "ok") =>
        /\ api.persisted
        /\ cfgMem[1].accessToken = api.data[1].access_token
        /\ cfgMem[1].refreshToken = api.data[1].refresh_token
        /\ Mine[Len(Mine)].token = api.data[1].access_token

\* C8, amended: after a successful refresh the new tokens are in the
\* in-memory config and the data request of the same call carries the new
\* access token, not the old one; the new tokens have been written to the
\* folder's entry of projects.json unless that entry was no longer there when
\* the refresh response arrived, and an entry that is there holds the same
\* tokens as the in-memory config.
C8_RefreshPersistedIfLinked ==
    (Started /\ api.refreshed = "ok") =>
        LET data == api.data[1]
            projects == readProjectsFile(projectsFile)
            folder == api.cfg0[1].folder
        IN  /\ cfgMem[1].accessToken = data.access_token
            /\ cfgMem[1].refreshToken = data.refresh_token
            /\ cfgMem[1].expiresAt \in
                  {t + data.expires_in : t \in api.t0..now}
            /\ Mine[Len(Mine)].kind = "data"
            /\ Mine[Len(Mine)].token = data.access_token
            /\ Mine[Len(Mine)].token # api.cfg0[1].accessToken
            /\ folder \in DOMAIN projects =>
                  /\ api.persisted
                  /\ sameTokens(projects[folder], cfgMem[1])
                  /\ projects[folder].expiresAt \in
                        {t + data.expires_in : t \in api.t0..now}

C8_Witness ==
    /\ Started
    /\ api.refreshed = "ok"
    /\ api.persisted
    /\ api.cfg0[1].folder \in DOMAIN readProjectsFile(projectsFile)
    /\ readProjectsFile(projectsFile)[api.cfg0[1].folder].accessToken
          = api.data[1].access_token
    /\ api.phase = "done"

\* C9: once the timer of a callback wait has fired, the server no longer
\* listens and the wait is no longer pending; if no /callback request had
\* been handled, the wait is rejected.
C9_TimeoutRejectsAndCloses ==
    \A k \in Servers :
        srv[k].timer = "fired" =>
            /\ srv[k].state = "closed"
            /\ srv[k].settled # "pending"
            /\ ~srv[k].responded => srv[k].settled = "rejected"

\* the OAuth wait timed out while the browser still had a request open
C9_Witness ==
    /\ srv["oauth"].timer = "fired"
    /\ srv["oauth"].settled = "rejected"
    /\ ~srv["oauth"].responded
    /\ conns["oauth"]["c1"] = "pending"
    /\ pc = "exited"
    /\ Decisions = <<Decision("allow", "")>>

\* C10: once a callback wait has been resolved by a /callback request, the
\* confirmation has been sent, the server no longer listens and none of its
\* connections is open.
C10_CallbackClosesEverything ==
    \A k \in Servers :
        srv[k].settled = "resolved" =>
            /\ srv[k].responded
            /\ srv[k].state = "closed"
            /\ \A c \in ConnIds : conns[k][c] = "closed"

\* the raw value of the first pair called name in query q, <<>> when the
\* pair is absent or its value is empty
RawParam(q, name) ==
    LET idx == {i \in 1..Len(q) : q[i][1] = name}
    IN  IF idx = {} THEN <<>>
        ELSE q[CHOOSE i \in idx : \A j \in idx : i <= j][2]

\* C11: the plan-review wait resolved by a /callback request holds the
\* decision and the feedback of the query string, URL-decoded; decision is
\* allow and feedback is empty when the parameter is absent or empty; the
\* query decision=deny&feedback=not+ready gives deny and "not ready".
C11_CallbackResult ==
    srv["plan"].settled = "resolved" =>
        LET q == srv["plan"].query[1]
            result == srv["plan"].result[1]
        IN  /\ result.decision =
                  IF RawParam(q, "decision") = <<>> THEN "allow"
                  ELSE urlDecode(RawParam(q, "decision"))
            /\ result.feedback = urlDecode(RawParam(q, "feedback"))
            /\ q = <<Param("decision", <<"deny">>),
                     Param("feedback", <<"not", "+", "ready">>)>>
                  => result = [decision |-> "deny", feedback |-> "not ready"]
            /\ q = <<>> => result = [decision |-> "allow", feedback |-> ""]

\* /callback?decision=deny&feedback=not+ready has resolved the wait
C11_Witness ==
    /\ srv["plan"].settled = "resolved"
    /\ srv["plan"].query =
          <<(<<Param("decision", <<"deny">>),
               Param("feedback", <<"not", "+", "ready">>)>>)>>
    /\ srv["plan"].result = <<[decision |-> "deny", feedback |-> "not ready"]>>

\* the run has ended after the plan-review callback delivered its result
DecidedByCallback ==
    HookRun /\ pc = "exited" /\ srv["plan"].settled = "resolved"

\* C12: after the callback has delivered decision d and feedback f, the hook
\* has written deny exactly when d is deny, denied or reject, with message f
\* or, when f is empty, "Plan rejected by reviewer."; for every other d it
\* has written allow with no message.
C12_DecisionFollowsCallback ==
    DecidedByCallback =>
        LET d == srv["plan"].result[1].decision
            f == srv["plan"].result[1].feedback
        IN  Decisions =
              <<IF d \in {"deny", "denied", "reject"}
                THEN Decision("deny",
                              IF f = "" THEN "Plan rejected by reviewer."
                              ELSE f)
                ELSE Decision("allow", "")>>

\* the reviewer answered "denied" without feedback
C12_Witness ==
    /\ DecidedByCallback
    /\ srv["plan"].result[1] = [decision |-> "denied", feedback |-> ""]
    /\ Decisions = <<Decision("deny", "Plan rejected by reviewer.")>>

\* the hook read its input, and none of the three methods yields a plan
NoPlanRun ==
    /\ HookRun
    /\ input.kind \in {"object", "null"}
    /\ resolvePlan(input).plan = ""

\* C13: a plan-review run in which no method yields a plan sends no request
\* and starts no callback server, and when it ends it has written the allow
\* decision and exited with code 0.
C13_NoPlanAllowsQuietly ==
    NoPlanRun =>
        /\ calls = <<>>
        /\ \A k \in Servers : srv[k].state = "none"
        /\ Ended =>
              /\ pc = "exited"
              /\ exitCode = 0
              /\ Decisions = <<Decision("allow", "")>>

\* C14: after a run that ended with a decision received through the callback,
\* active-plan.json is gone when the decision was an allow, and holds the
\* plan id, project id and session id of the plan just uploaded when it was
\* a deny.
C14_ActivePlanClearedOrKept ==
    DecidedByCallback =>
        IF Decisions[1].behavior = "allow"
        THEN activePlanFile.state = "missing"
        ELSE /\ getActivePlan =
                  <<[planId |-> loc.planId, projectId |-> loc.projectId,
                     sessionId |-> input.sessionId]>>
             /\ loc.planId # ""
             /\ LET upload == calls[Len(calls)]
                IN  loc.planId =
                      IF upload.req = versionsRequest
                      THEN upload.target
                      ELSE ResponseId(upload.req)

\* the reviewer approved: the record written after the upload is gone
C14_Witness ==
    /\ DecidedByCallback
    /\ Decisions = <<Decision("allow", "")>>
    /\ srv["plan"].result[1].decision = "allowed"
    /\ loc.planId # ""
    /\ activePlanFile.state = "missing"

\* the run found an active plan of its project and session
Resubmission == HookRun /\ loc.activePlanId # ""

\* the upload requests the run has sent
Uploads ==
    SelectSeq(calls, LAMBDA c : c.req \in {versionsRequest, newPlanRequest})

\* C15 as stated: a resubmission sends no POST that creates a new plan, and
\* the plan id in the active plan record stays the same.
C15_ResubmitNeverPosts ==
    Resubmission =>
        /\ \A i \in 1..Len(Uploads) : Uploads[i].req = versionsRequest
        /\ getActivePlan # <<>> =>
              getActivePlan[1].planId = loc.activePlanId

\* C15, amended: a resubmission uploads with PUT to the versions of the
\* active plan; unless that upload has failed, the run sends no POST that
\* creates a new plan and the plan id in the active plan record stays the
\* same; a POST is sent only after the PUT upload has failed.
C15_ResubmitPutsFirst ==
    Resubmission =>
        /\ ~loc.putFailed =>
              /\ \A i \in 1..Len(Uploads) :
                    /\ Uploads[i].req = versionsRequest
                    /\ Uploads[i].target = loc.activePlanId
              /\ getActivePlan # <<>> =>
                    getActivePlan[1].planId = loc.activePlanId
              /\ loc.planId \in {"", loc.activePlanId}
        /\ loc.planId = loc.activePlanId =>
              /\ ~loc.putFailed
              /\ Len(Uploads) = 1
        /\ (\E i \in 1..Len(Uploads) : Uploads[i].req = newPlanRequest) =>
              loc.putFailed

\* the new version was uploaded and rejected again: same plan, no POST
C15_Witness ==
    /\ Resubmission
    /\ DecidedByCallback
    /\ Decisions[1].behavior = "deny"
    /\ Len(Uploads) = 1
    /\ Uploads[1].req = versionsRequest
    /\ Uploads[1].target = "P1"
    /\ getActivePlan # <<>>
    /\ getActivePlan[1].planId = "P1"

\* the run has looked for the plan text
PlanLooked ==
    /\ HookRun
    /\ input.kind \in {"object", "null"}
    /\ pc \in {"rp_get_project", "exited"}

\* tool_input.plan holds a plan
PlanGiven == input.plan # <<>> /\ input.plan[1] # ""

CandidateNames == <<".claude/plan.md", "plan.md">>

\* the first candidate file among those in set idx, 0 when there is none
FirstOf(idx) == IF idx = {} THEN 0 ELSE CHOOSE i \in idx : \A j \in idx : i <= j

\* C16 as stated: the plan is tool_input.plan when it holds one, and then
\* nothing else is consulted; otherwise it is the result of the transcript
\* scan, and then no file is consulted; otherwise it comes from the first
\* candidate file that exists and is not empty.
C16_PriorityAsStated ==
    PlanLooked =>
        IF PlanGiven THEN loc.plan = input.plan[1] /\ loc.consulted = <<>>
        ELSE IF extractPlanFromTranscript(input.transcript) # ""
        THEN /\ loc.plan = extractPlanFromTranscript(input.transcript)
             /\ loc.consulted = <<"transcript">>
        ELSE LET first == FirstOf({i \in 1..2 : /\ input.files[i].state = "ok"
                                                /\ input.files[i].raw # <<>>})
             IN  IF first = 0 THEN loc.plan = ""
                 ELSE loc.plan \in {concat(input.files[first].raw),
                                    trim(input.files[first].raw)}

\* C16, amended: as above, but a candidate file counts only when it exists,
\* can be read and holds more than whitespace; the plan is its text without
\* the surrounding whitespace; the candidates before it, missing, unreadable
\* or blank, have been probed and passed over, and none after it is read.
C16_PriorityTrimmed ==
    PlanLooked =>
        IF PlanGiven THEN loc.plan = input.plan[1] /\ loc.consulted = <<>>
        ELSE IF extractPlanFromTranscript(input.transcript) # ""
        THEN /\ loc.plan = extractPlanFromTranscript(input.transcript)
             /\ loc.consulted = <<"transcript">>
        ELSE LET first == FirstOf({i \in 1..2 :
                                     /\ input.files[i].state = "ok"
                                     /\ \E k \in 1..Len(input.files[i].raw) :
                                           ~isWhitespace(input.files[i].raw[k])})
                 last == IF first = 0 THEN 2 ELSE first
             IN  /\ loc.consulted =
                       <<"transcript">> \o SubSeq(CandidateNames, 1, last)
                 /\ IF first = 0 THEN loc.plan = ""
                    ELSE /\ loc.plan = trim(input.files[first].raw)
                         /\ loc.plan \in {"F1", "F2"}

\* .claude/plan.md cannot be read: the plan is the text of plan.md
C16_Witness ==
    /\ PlanLooked
    /\ input.plan = <<>>
    /\ input.files = <<UnreadableFile, File(<<" ", "F2", "\n">>)>>
    /\ loc.consulted = <<"transcript", ".claude/plan.md", "plan.md">>
    /\ loc.plan = "F2"
    /\ pc = "rp_get_project"

\* the run has scanned a transcript it could read
Scanned ==
    /\ PlanLooked
    /\ ~PlanGiven
    /\ input.transcript.state = "ok"

\* the Write blocks of assistant entries whose path matches, in log order
RECURSIVE MatchingWrites(_)
MatchingWrites(lines) ==
    IF lines = <<>> THEN <<>>
    ELSE LET line == lines[Len(lines)]
             mine == IF line.parses /\ line.role = "assistant" /\ line.isArray
                     THEN SelectSeq(line.blocks,
                                    LAMBDA b : /\ b.type = "tool_use"
                                               /\ b.name = "Write"
                                               /\ b.pathOk
                                               /\ matchesPlanFile(b.file_path))
                     ELSE <<>>
         IN  MatchingWrites(SubSeq(lines, 1, Len(lines) - 1)) \o mine

\* C17: the transcript scan returns the content of the last matching Write
\* of the log, in the order of the lines and of the blocks within a line.
C17_LastWriteWins ==
    Scanned =>
        LET writes == MatchingWrites(input.transcript.lines)
        IN  loc.scan = IF writes = <<>> THEN ""
                       ELSE writes[Len(writes)].content

\* a line the scan cannot use: not JSON, no message, a content that is not
\* an array, or a block whose file_path is not a string
Unusable(line) ==
    \/ ~line.parses
    \/ line.role = ""
    \/ ~line.isArray
    \/ \E j \in 1..Len(line.blocks) : ~line.blocks[j].pathOk

\* C18: the transcript scan returns what it returns for the same transcript
\* without its unusable lines; such a line never ends the scan.
C18_MalformedLinesSkipped ==
    Scanned =>
        loc.scan =
          extractPlanFromTranscript(
             Transcript(SelectSeq(input.transcript.lines,
                                  LAMBDA line : ~Unusable(line))))

\* the plan of an earlier line was found behind a line that is not JSON
C18_Witness ==
    /\ Scanned
    /\ Len(input.transcript.lines) = 2
    /\ input.transcript.lines[2] = Malformed
    /\ ~Unusable(input.transcript.lines[1])
    /\ loc.scan = "A"
    /\ loc.plan = "A"

\* a write call of the file operations has finished and nothing has touched
\* the file since
Written ==
    /\ prog = "files"
    /\ \E call \in WriteCalls : argv = call[1]
    /\ pc \in {"fs_written", "fs_done"}
    /\ wr.stage = "idle"

\* C19: a record read back right after it was written is the record written:
\* getMapping(k) after setMapping(k, v) is v, getActivePlan() after
\* setActivePlan(p, j, s) has plan id p, project id j and session id s,
\* getActiveTask() after setActiveTask(t) is t, and readProjectsFile() after
\* writeProjectsFile(d) is d.
C19_RoundTrip ==
    Written =>
        /\ ~readThrows(readBack(argv))
        /\ CASE argv = "setMapping" ->
                   getMapping(input.ccTaskId) = input.lsTaskId
             [] argv = "setActiveTask" ->
                   getActiveTask = input.lsTaskId
             [] argv = "setActivePlan" ->
                   getActivePlan = <<[planId |-> input.planId,
                                      projectId |-> input.projectId,
                                      sessionId |-> input.sessionId]>>
             [] OTHER ->
                   readProjectsFile(projectsFile) = input.data

\* an active plan with a session id was written over a file that was not
\* JSON, and read back
C19_Witness ==
    /\ Written
    /\ pc = "fs_done"
    /\ argv = "setActivePlan"
    /\ input.sessionId = "s2"
    /\ input.planId = "P2"
    /\ getActivePlan # <<>>
    /\ getActivePlan[1].sessionId = "s2"
    /\ activePlanFile.data[1].planId = "P2"

\* C20: whatever the persisted files hold, no file operation throws, and a
\* file that is missing or is not the JSON of an object reads as empty:
\* readProjectsFile and readMap give an empty table, getActiveTask and
\* getActivePlan give no record.
C20_ReadsTolerateAnyContent ==
    prog = "files" =>
        /\ pc # "fs_thrown"
        /\ projectsFile.state # "ok" =>
              readProjectsFile(projectsFile) = NoProjects
        /\ taskMapFile.state # "ok" => readMap = NoMap
        /\ activeTaskFile.state # "ok" => getActiveTask = ""
        /\ activePlanFile.state # "ok" => getActivePlan = <<>>

\* both racing processes have finished and at least one has written
RaceOver ==
    /\ prog = "race"
    /\ \A p \in Procs : peers[p].pc = "done"
    /\ \E p \in Procs : peers[p].seq > 0

\* the process whose replace came last
LastWriter ==
    CHOOSE p \in Procs : \A q \in Procs : peers[q].seq <= peers[p].seq

\* C21: when two processes have interleaved their read-modify-write of one
\* file, the file holds exactly the complete content written by the process
\* whose replace came last.
C21_LastWriterWins ==
    RaceOver =>
        IF argv = "task-map.json"
        THEN taskMapFile = JsonFile(peers[LastWriter].data)
        ELSE projectsFile = JsonFile(peers[LastWriter].data)

\* the part of C21 that holds: task-map.json after two racing setMapping
\* calls is the whole map of the last rename
C21_MapLastWriterWins ==
    (RaceOver /\ argv = "task-map.json") =>
        taskMapFile = JsonFile(peers[LastWriter].data)

\* the OAuth wait of this run was settled by a /callback request with
\* skipped=true, under the revision of auth.js that knows the parameter
SkippedCallback ==
    /\ HookRun
    /\ authRev = "part_008"
    /\ srv["oauth"].query # <<>>
    /\ srv["oauth"].query[1].skipped

\* C22: a /callback request with skipped=true resolves the wait with a
\* skipped result; authenticate then returns without throwing and leaves no
\* access or refresh token for the folder in projects.json, and the run, once
\* it has ended by itself, has emitted exactly one allow and exit code 0.
C22_SkippedIsNotAnError ==
    SkippedCallback =>
        /\ srv["oauth"].settled = "resolved"
        /\ srv["oauth"].result[1].skipped
        /\ pc \notin {"thrown", "crashed"}
        /\ cfgMem = <<>>
        /\ LET projects == readProjectsFile(projectsFile)
           IN  procCwd \in DOMAIN projects =>
                 /\ projects[procCwd].accessToken = 0
                 /\ projects[procCwd].refreshToken = 0
        /\ pc = "exited" =>
              /\ Decisions = <<Decision("allow", "")>>
              /\ exitCode = 0
              /\ calls = <<>>

\* the user declined, the folder is recorded as skipped and the hook allowed
C22_Witness ==
    /\ SkippedCallback
    /\ pc = "exited"
    /\ Decisions = <<Decision("allow", "")>>
    /\ projectsFile.state = "ok"
    /\ procCwd \in DOMAIN projectsFile.data
    /\ projectsFile.data[procCwd] = SkippedEntry

\* a is d or a directory above d
OnPathToRoot(a, d) ==
    \/ a = d
    \/ a = RootDir
    \/ /\ Len(a) < Len(d)
       /\ SubSeq(d, 1, Len(a)) = a
       /\ d[Len(a) + 1] = "/"

\* the folders with a link on the path from d to the root
LinkedAbove(projects, d) == {a \in DOMAIN projects : OnPathToRoot(a, d)}

\* the link of the nearest of them, as getConfig hands it out
NearestLink(projects, d) ==
    IF LinkedAbove(projects, d) = {} THEN <<>>
    ELSE LET a == CHOOSE x \in LinkedAbove(projects, d) :
                     \A y \in LinkedAbove(projects, d) : Len(y) <= Len(x)
         IN  <<[accessToken  |-> projects[a].accessToken,
                refreshToken |-> projects[a].refreshToken,
                expiresAt    |-> projects[a].expiresAt,
                projectId    |-> projects[a].projectId,
                skipped      |-> projects[a].skipped,
                folder       |-> a]>>

CreatePosts == SelectSeq(calls, LAMBDA c : c.req = createRequest)

\* the body each command line of CreateArgs asks for
ExpectedBody(args) ==
    CASE args = <<"Fix", "login", "bug">> ->
           [title |-> "Fix login bug", projectStatus |-> "todo"]
      [] args = <<"Fix", "login", "bug", "--complexity", "high">> ->
           [title |-> "Fix login bug", complexity |-> "high",
            projectStatus |-> "todo"]
      [] args = <<"Fix", "--status", "done">> ->
           [title |-> "Fix", projectStatus |-> "done"]
      [] args = <<"--description", "d1", "Fix", "--complexity", "low",
                  "--status", "in_review">> ->
           [title |-> "Fix", description |-> "d1", complexity |-> "low",
            projectStatus |-> "in_review"]
      [] args = <<"Fix", "--complexity">> ->
           [title |-> "Fix --complexity", projectStatus |-> "todo"]
      [] args = <<"Fix", "--description", "", "now">> ->
           [title |-> "Fix --description  now", projectStatus |-> "todo"]
      [] OTHER -> <<>>

\* C24: a run of create <title> [flags] sends at most one POST
\* /api/projects/:id/tasks and no other request that changes data; the body
\* of the POST holds the title, projectStatus (todo unless --status is given)
\* and only the optional fields that were passed; a run that ends with exit
\* code 0 has sent exactly one such POST and has then printed the id of the
\* returned task.
C24_CreatePostsOnce ==
    (prog = "ls-cli" /\ argv = "create") =>
        /\ Len(CreatePosts) <= 1
        /\ \A i \in 1..Len(calls) :
              calls[i].req \in {createRequest, "GET /api/project-key/info",
                                "POST /oauth/token"}
        /\ \A i \in 1..Len(CreatePosts) :
              /\ CreatePosts[i].body = ExpectedBody(input.args)
              /\ CreatePosts[i].target = loc.projectId
              /\ loc.projectId # ""
        /\ (pc = "exited" /\ exitCode = 0) =>
              /\ Len(CreatePosts) = 1
              /\ calls[Len(calls)].req = createRequest
              /\ Len(stdout) = 1
              /\ stdout[1].message = "ID: " \o ResponseId(createRequest)
        /\ stdout # <<>> => Len(CreatePosts) = 1

\* create "Fix login bug" --complexity high in a linked folder: one POST
\* with the three fields, and the id is printed
C24_Witness ==
    /\ prog = "ls-cli"
    /\ pc = "exited"
    /\ exitCode = 0
    /\ input.args = <<"Fix", "login", "bug", "--complexity", "high">>
    /\ Len(CreatePosts) = 1
    /\ CreatePosts[1].body = [title |-> "Fix login bug", complexity |-> "high",
                              projectStatus |-> "todo"]
    /\ stdout = <<[kind |-> "log", behavior |-> "", message |-> "ID: L2"]>>

\* a task-update event that reached its handler
UpdateRun == prog = "sync-task" /\ argv = "update" /\ loc.cfg # <<>>

\* the requests of the run to the API, the token endpoint left aside
TaskCalls == SelectSeq(calls, LAMBDA c : c.kind = "data")

\* the status mapping of the README
ReadmeStatus(ccStatus) ==
    CASE ccStatus = "pending" -> "todo"
      [] ccStatus = "in_progress" -> "in_progress"
      [] ccStatus = "completed" -> "done"
      [] OTHER -> ""

\* C25: a task-update event for a mapped local task with status pending,
\* in_progress or completed sends one PATCH to the mapped remote task with
\* projectStatus todo, in_progress or done; with status deleted it sends one
\* DELETE to the mapped remote task and no PATCH; for a local task without a
\* mapping it sends no request at all.  (One request: never more, and exactly
\* one once the call has got past the token refresh.)
C25_UpdateSyncsStatus ==
    UpdateRun =>
        /\ Len(TaskCalls) <= 1
        /\ getMapping(input.taskId) = "" => calls = <<>>
        /\ \A i \in 1..Len(TaskCalls) :
              /\ TaskCalls[i].target = getMapping(input.taskId)
              /\ TaskCalls[i].target # ""
              /\ IF input.status = "deleted"
                 THEN TaskCalls[i].req = "DELETE /api/tasks/:id"
                 ELSE /\ TaskCalls[i].req = "PATCH /api/tasks/:id"
                      /\ TaskCalls[i].body = ReadmeStatus(input.status)
        /\ ( /\ input.status \in {"pending", "in_progress", "completed",
                                  "deleted"}
             /\ getMapping(input.taskId) # ""
             /\ api.phase = "done"
             /\ api.refreshed # "fail" ) =>
              Len(TaskCalls) = 1

\* a completed update of the mapped task c1 has been sent as done
C25_Witness ==
    /\ UpdateRun
    /\ pc = "exited"
    /\ input.status = "completed"
    /\ Len(TaskCalls) = 1
    /\ TaskCalls[1].req = "PATCH /api/tasks/:id"
    /\ TaskCalls[1].target = "L1"
    /\ TaskCalls[1].body = "done"

\* what a callback wait keeps: once it is settled, no later /callback
\* request, no request for another path and no timeout changes the outcome or
\* the result; it is settled only by a /callback request or by the timeout;
\* a request for another path changes nothing of the server
SettledStands(k) ==
    /\ srv[k].settled \in {"resolved", "rejected"} =>
          /\ srv'[k].settled = srv[k].settled
          /\ srv'[k].result = srv[k].result
    /\ (srv[k].settled = "pending" /\ srv'[k].settled # "pending") =>
          \/ /\ srv'[k].settled = "resolved"
             /\ srv'[k].responded
             /\ srv'[k].query # <<>>
          \/ /\ srv'[k].settled = "rejected"
             /\ srv[k].timer = "armed"
             /\ srv'[k].timer = "fired"
    /\ \A c \in ConnIds :
          (conns[k][c] = "idle" /\ conns'[k][c] = "pending") => srv' = srv
    /\ (srv'[k] # srv[k] /\ srv[k].settled # "none") => pc' = pc

C26_SettledResultStands == [][\A k \in Servers : SettledStands(k)]_vars

\* C26: a callback wait settles at most once, and only by a /callback
\* request or by the timeout: once it is settled nothing changes the outcome
\* or the result, a request for another path changes nothing of the server,
\* and no request that reaches the listening server crashes the process.
C26_SettlesOnce ==
    [][\A k \in Servers :
          /\ SettledStands(k)
          /\ (Awaited(k) /\ srv[k].state # "binding") => pc' # "crashed"
      ]_vars

\* the OAuth wait was resolved, a second /callback request came in on a
\* connection that was still open, and the first result stands
C26_Replayed ==
    /\ HookRun
    /\ srv["oauth"].replayed
    /\ srv["oauth"].settled = "resolved"
    /\ srv["oauth"].result = <<callbackResult("oauth", srv["oauth"].query[1])>>
    /\ pc = "rp_oauth_wait"

\* C27: in both flows, from the moment the browser is directed to the URL
\* that names the callback port until the wait settles, a server of this
\* process listens on that port.
C27_ListensBeforeBrowser ==
    \A k \in Servers :
        (Alive /\ srv[k].opened /\ srv[k].settled \notin {"resolved", "rejected"})
            => srv[k].state = "listening"

\* the plan flow: the browser has the review URL and this process has not
\* even created its server
C27_BrowserFirst ==
    /\ HookRun
    /\ pc = "rp_listen"
    /\ srv["plan"].opened
    /\ srv["plan"].state = "none"

\* the step is the approve branch of main: the wait was resolved by a
\* callback whose decision is not a deny, the hook prints allow and
\* active-plan.json is removed
ApproveClears ==
    /\ pc = "rp_wait"
    /\ srv["plan"].settled = "resolved"
    /\ ~isDeny(srv["plan"].result[1].decision)
    /\ activePlanFile'.state = "missing"
    /\ stdout' = Append(stdout, Decision("allow", ""))

\* the step puts in place what setActivePlan wrote for the plan just uploaded
UploadRecorded ==
    /\ loc.planId # ""
    /\ \E t \in 0..now :
          activePlanFile' =
             JsonFile(<<activePlanJson(loc.planId, loc.projectId,
                                       input.sessionId, t)>>)

\* C28: in a run of the plan-review hook active-plan.json changes only when
\* setActivePlan records the plan just uploaded or when an approve received
\* through the callback clears it; no fail-open allow path touches it.
C28_OnlyApproveClears ==
    [][(HookRun /\ activePlanFile' # activePlanFile)
          => (ApproveClears \/ UploadRecorded)]_vars

\* the review timed out after a successful upload: the hook allowed through
\* its catch and active-plan.json holds what setActivePlan wrote
C28_Witness ==
    /\ HookRun
    /\ pc = "exited"
    /\ srv["plan"].settled = "rejected"
    /\ Decisions = <<Decision("allow", "")>>
    /\ loc.planId # ""
    /\ getActivePlan =
          <<[planId |-> loc.planId, projectId |-> loc.projectId,
             sessionId |-> input.sessionId]>>

\* the updates before event i that track the active task: a mapped local
\* task, status in_progress, completed or deleted
Tracking(i) ==
    {j \in 1..(i - 1) :
        /\ events[j].argv = "update"
        /\ events[j].taskId \in DOMAIN SeqMap
        /\ events[j].status \in {"in_progress", "completed", "deleted"}}

\* the remote task a subagent event i is to comment on, "" for none
ExpectedTask(i) ==
    IF Tracking(i) = {}
    THEN ""
    ELSE LET last == CHOOSE j \in Tracking(i) : \A k \in Tracking(i) : k <= j
         IN  IF events[last].status = "in_progress"
             THEN SeqMap[events[last].taskId]
             ELSE ""

\* C29: over a sequence of task-sync events, a subagent event comments on
\* remote task T, once, exactly when the most recent update of a mapped task
\* with status in_progress, completed or deleted was an in_progress update
\* of the local task mapped to T; when it was completed or deleted, or there
\* was none, the subagent event makes no network call.  (Once: never more,
\* and exactly once when the call has got past the token refresh.)
C29_SubagentComments ==
    \A i \in 1..Len(events) :
        events[i].argv = "subagent" =>
            IF ExpectedTask(i) = ""
            THEN events[i].ncalls = 0
            ELSE /\ events[i].comments \in {<<>>, <<ExpectedTask(i)>>}
                 /\ events[i].sent => events[i].comments = <<ExpectedTask(i)>>

\* c1 went in progress, then c2 did, and the subagent event commented on L2
C29_Witness ==
    /\ Len(events) = 3
    /\ events[1].taskId = "c1" /\ events[1].status = "in_progress"
    /\ events[2].taskId = "c2" /\ events[2].status = "in_progress"
    /\ events[3].argv = "subagent"
    /\ events[3].comments = <<"L2">>
    /\ events[3].ncalls >= 1

\* C30: the disconnect command removes from projects.json exactly the
\* entries of the current directory and of its ancestor directories, and
\* writes every other entry back unchanged; when there is none of them it
\* leaves the file alone.
C30_DisconnectRemovesPath ==
    [][(prog = "files" /\ argv = "disconnect" /\ pc = "fs_start"
          /\ pc' = "fs_done")
          => LET projects == readProjectsFile(projectsFile)
                 above == LinkedAbove(projects, input.cwd)
             IN  IF above = {}
                 THEN projectsFile' = projectsFile /\ wr' = wr
                 ELSE /\ wr'.file = "projects.json"
                      /\ wr'.data = [d \in DOMAIN projects \ above |->
                                       projects[d]]
      ]_vars

\* what holds of it: the entries of the current directory and of its
\* ancestors are always among the removed ones, and what is written back is
\* unchanged
C30_PathRemoved ==
    [][(prog = "files" /\ argv = "disconnect" /\ pc = "fs_start"
          /\ pc' = "fs_done")
          => LET projects == readProjectsFile(projectsFile)
                 above == LinkedAbove(projects, input.cwd)
             IN  IF toRemove(projects, input.cwd) = {}
                 THEN above = {} /\ projectsFile' = projectsFile
                 ELSE /\ DOMAIN wr'.data \cap above = {}
                      /\ \A d \in DOMAIN wr'.data : wr'.data[d] = projects[d]
      ]_vars

\* disconnect in /w/pp has been run on a table that linked /w/p as well, and
\* the table written back has lost the sibling /w/p
C30_SiblingRemoved ==
    /\ prog = "files" /\ argv = "disconnect"
    /\ input.cwd = DirWPP
    /\ pc = "fs_done"
    /\ wr.file = "projects.json"
    /\ DirWP \in DOMAIN wr.prev.data
    /\ DirWP \notin DOMAIN wr.data

====
